---- MODULE Spec2Model ----
(***************************************************************************)
(* Model of the CTS grid-trading core: GridRSIStrategyV5_2 (indicators,    *)
(* grid engine, risk controller, dual matrix, on_data decision loop),      *)
(* PaperExecutor and MultiStrategyRunner.                                  *)
(*                                                                         *)
(* Number representation (the source uses Python floats):                  *)
(*   prices, EMAs, ATR, grid levels : integer ticks of 0.01                *)
(*   money (cash, notionals)        : integer cents                       *)
(*   base-asset sizes               : integer 1/1000 units                *)
(*   ratios and percentages         : integer 1/10000 (basis points)      *)
(*   RSI                            : integer 1/100 (0 .. 10000)          *)
(*   timestamps                     : integer seconds                     *)
(* Every float division is a floor division (\div) at these scales.        *)
(* One traded symbol is modelled (the feed's symbol is the strategy's).    *)
(***************************************************************************)
EXTENDS Integers, Sequences, FiniteSets, TLC

\* ------------------------------------------------------------------------
\* Bounds of the model
\* ------------------------------------------------------------------------
\* candles delivered to the runner, control operations, injected faults
MaxBars == 3
MaxOps == 2
MaxFaults == 1
\* candles fed to the directly driven strategy
MaxSteps == 6
\* candles delivered in a trading session
MaxCandles == 4
\* candles fed to the strategy in a trending market
MaxTrend == 7
\* candles fed to the strategy whose parameter file changes, and the number
\* of reloads step 0 of on_data is given
MaxTicks == 4
MaxReloads == 1
\* polls of the exchange answered with a candle
MaxPolls == 4
\* candles of a market that does not move
MaxCalm == 36
\* orders submitted to the executor on its own
MaxOrders == 4
\* calls of the grid logic on its own
MaxGridCalls == 1

\* ------------------------------------------------------------------------
\* Fixed-point scales and small helpers
\* ------------------------------------------------------------------------
BP == 100 * 100
RSIScale == 10 * 10
QtyScale == 10 * 100

\* Python's None, and a present optional value (Some is used where the value
\* is a number or a list)
None == [ none |-> TRUE ]
Some(x) == [ v |-> x ]

Max2(a, b) == IF a >= b THEN a ELSE b
Min2(a, b) == IF a <= b THEN a ELSE b
Abs(a) == IF a < 0 THEN 0 - a ELSE a
Clip(x, lo, hi) == IF x < lo THEN lo ELSE IF x > hi THEN hi ELSE x

RECURSIVE SeqMax(_)
SeqMax(q) == IF Len(q) = 1 THEN q[1] ELSE Max2(q[1], SeqMax(Tail(q)))
RECURSIVE SeqMin(_)
SeqMin(q) == IF Len(q) = 1 THEN q[1] ELSE Min2(q[1], SeqMin(Tail(q)))

\* q[a..b] for 1-based inclusive bounds (empty when a > b)
Slice(q, a, b) == IF a > b THEN << >> ELSE SubSeq(q, a, b)

\* collections.deque(maxlen=n).append(x)
DequeAppend(q, x, maxlen) ==
    IF Len(q) >= maxlen THEN Append(Tail(q), x) ELSE Append(q, x)

\* ------------------------------------------------------------------------
\* Strategy constants and parameters
\* ------------------------------------------------------------------------
STRONG_BULLISH == "STRONG_BULLISH"
BULLISH        == "BULLISH"
NEUTRAL        == "NEUTRAL"
BEARISH        == "BEARISH"
STRONG_BEARISH == "STRONG_BEARISH"

\* _TREND_BOOST in basis points
TREND_BOOST(t) ==
    CASE t = STRONG_BULLISH -> 3000
      [] t = BULLISH        -> 1000
      [] t = NEUTRAL        -> 0
      [] t = BEARISH        -> 0 - 2000
      [] t = STRONG_BEARISH -> 0 - 4000
      [] OTHER              -> 0

\* _DEFAULT_PARAMS at the model's scales
DEFAULT_PARAMS ==
    [ grid_levels |-> 10, grid_buffer_pct |-> 1000,
      grid_spacing_min |-> 30, grid_spacing_max |-> 200,
      grid_refresh_period |-> 100,
      pivot_window |-> 5, pivot_n |-> 3, pivot_lookback |-> 100,
      macd_fast |-> 12, macd_slow |-> 26, macd_signal |-> 9,
      rsi_period |-> 14, rsi_weight |-> 4000,
      rsi_zone_oversold |-> 3500, rsi_zone_mid |-> 5000,
      rsi_zone_overbought |-> 6500,
      rsi_extreme_buy |-> 7500, rsi_extreme_sell |-> 2500,
      atr_period |-> 14,
      trend_shift_strong_u |-> 2000, trend_shift_strong_l |-> 1000,
      trend_shift_weak_u |-> 1000, trend_shift_weak_l |-> 500,
      base_position_pct |-> 1000, max_positions |-> 5,
      min_order_usdt |-> 10000, min_trade_interval_pct |-> 25,
      stop_loss_pct |-> 500, trailing_stop |-> TRUE,
      trailing_stop_pct |-> 200, trailing_trigger_pct |-> 500,
      black_swan_pct |-> 1000, cooldown_minutes |-> 15,
      cycle_reset_period |-> 5000, max_drawdown_reset |-> 3000 ]

\* Constructor overrides of the modelled instances (GridRSIStrategyV5_2(**overrides)):
\* short indicator periods and pivot window, so that warm-up and pivots
\* happen within MaxBars candles.  All thresholds keep their defaults.
\* The runner's slots warm up in 3 candles, the directly driven instance in 5.
RunnerOverrides ==
    [ macd_fast |-> 1, macd_slow |-> 2, macd_signal |-> 1,
      rsi_period |-> 2, atr_period |-> 2, pivot_window |-> 2 ]
DirectOverrides ==
    [ macd_fast |-> 2, macd_slow |-> 3, macd_signal |-> 2,
      rsi_period |-> 2, atr_period |-> 2, pivot_window |-> 2 ]

\* self.params = {**_DEFAULT_PARAMS}; self.params.update(overrides)
InitParams(ov) ==
    [ k \in DOMAIN DEFAULT_PARAMS |->
        IF k \in DOMAIN ov THEN ov[k] ELSE DEFAULT_PARAMS[k] ]

\* deque maxlen of the close/high/low/data buffers
BufLen(p) ==
    Max2(Max2(p.macd_slow + p.macd_signal, p.rsi_period), p.atr_period) * 3 + 100

\* ------------------------------------------------------------------------
\* StrategyState and IncrementalIndicators
\* ------------------------------------------------------------------------
NewStrategyState ==
    [ last_candle |-> None, last_trade_ts |-> 0,
      current_rsi |-> 5000, current_atr |-> 0,
      macd_line |-> 0, signal_line |-> 0, histogram |-> 0,
      prev_histogram |-> 0, prev_macd_line |-> 0, prev_signal_line |-> 0,
      trend_strength |-> NEUTRAL,
      grid_upper |-> None, grid_lower |-> None, grid_prices |-> << >>,
      grid_touch_count |-> 0, last_grid_update |-> 0, actual_levels |-> 10,
      pivots |-> None, last_action |-> "hold",
      conservative_mode |-> FALSE, consecutive_conflict |-> 0,
      black_swan_pause_until |-> 0 ]

\* IncrementalIndicators.__init__: the smoothing factors 2/(n+1) are fixed at
\* construction (kept here as the periods they come from)
NewIndicators(p) ==
    [ count |-> 0, ema_fast |-> 0, ema_slow |-> 0, sig_val |-> 0,
      prev_close |-> 0, avg_gain |-> 0, avg_loss |-> 0, atr_val |-> 0,
      fa |-> p.macd_fast, sa |-> p.macd_slow, ga |-> p.macd_signal ]

\* x += (target - x) * 2/(n+1)
Ema(x, target, n) == x + ((target - x) * 2) \div (n + 1)

\* Wilder running average: sum of x/period for the first `period` samples,
\* then (avg*(period-1) + x)/period
Wilder(avg, x, count, period) ==
    IF count <= period THEN avg + x \div period
    ELSE (avg * (period - 1) + x) \div period

\* the relative strength avg_gain/avg_loss in percent, not normalised
RsiOfRatio(ag, al) ==
    IF al > 0 THEN (100 * RSIScale * ag) \div al
    ELSE IF ag > 0 THEN 100 * RSIScale ELSE 50 * RSIScale

\* an RSI that counts a history without losses as gains only
RsiOfNoFlat(ag, al) ==
    IF al > 0 THEN (100 * RSIScale * ag) \div (ag + al) ELSE 100 * RSIScale

\* 100 - 100/(1 + avg_gain/avg_loss), 100 when only gains, 50 when flat
RsiOf(ag, al) ==
    IF al > 0 THEN (100 * RSIScale * ag) \div (ag + al)
    ELSE IF ag > 0 THEN 100 * RSIScale ELSE 50 * RSIScale

\* IncrementalIndicators.update(d, s): returns the new engine and state
IndicatorsUpdate(ind, s, p, d) ==
    LET cnt == ind.count + 1 IN
    IF cnt = 1 THEN
        [ ind |-> [ind EXCEPT !.count = 1, !.ema_fast = d.close,
                               !.ema_slow = d.close, !.prev_close = d.close],
          s |-> s ]
    ELSE
        LET ef  == Ema(ind.ema_fast, d.close, ind.fa)
            es  == Ema(ind.ema_slow, d.close, ind.sa)
            ml  == ef - es
            sv  == Ema(ind.sig_val, ml, ind.ga)
            chg == d.close - ind.prev_close
            gain == Max2(chg, 0)
            loss == Max2(0 - chg, 0)
            ag  == Wilder(ind.avg_gain, gain, cnt, p.rsi_period)
            al  == Wilder(ind.avg_loss, loss, cnt, p.rsi_period)
            tr  == Max2(d.high - d.low,
                        Max2(Abs(d.high - ind.prev_close), Abs(d.low - ind.prev_close)))
            atr == Wilder(ind.atr_val, tr, cnt, p.atr_period)
        IN
        [ ind |-> [ind EXCEPT !.count = cnt, !.ema_fast = ef, !.ema_slow = es,
                               !.sig_val = sv, !.avg_gain = ag, !.avg_loss = al,
                               !.atr_val = atr, !.prev_close = d.close],
          s |-> [s EXCEPT !.prev_macd_line = s.macd_line,
                          !.prev_signal_line = s.signal_line,
                          !.macd_line = ml, !.signal_line = sv,
                          !.prev_histogram = s.histogram,
                          !.histogram = ml - sv,
                          !.current_rsi = RsiOf(ag, al),
                          !.current_atr = atr] ]

\* the sample count IncrementalIndicators.warmup_done waits for
WarmupBars(p) == Max2(p.rsi_period, p.macd_slow + p.macd_signal)
\* a gate that waits for the RSI period only
warmup_done_rsi_only(ind, p) == ind.count >= p.rsi_period
\* IncrementalIndicators.warmup_done
warmup_done(ind, p) == ind.count >= WarmupBars(p)

\* ------------------------------------------------------------------------
\* Trend classification and RSI signal
\* ------------------------------------------------------------------------
\* GridRSIStrategyV5_2._update_trend (|h| < 1e-9 is h = 0 at tick resolution)
TrendOf(s) ==
    LET h == s.histogram
        ph == s.prev_histogram
        exp == IF Abs(ph) > 0 THEN Abs(h) > Abs(ph) ELSE FALSE
    IN  IF h = 0 THEN NEUTRAL
        ELSE IF s.macd_line > s.signal_line /\ h > 0
             THEN (IF exp THEN STRONG_BULLISH ELSE BULLISH)
        ELSE IF s.macd_line < s.signal_line /\ h < 0
             THEN (IF exp THEN STRONG_BEARISH ELSE BEARISH)
        ELSE NEUTRAL

Isqrt(n) == CHOOSE r \in 0..n : r * r <= n /\ (r + 1) * (r + 1) > n

RECURSIVE SeqSum(_)
SeqSum(q) == IF q = << >> THEN 0 ELSE q[1] + SeqSum(Tail(q))

\* ------------------------------------------------------------------------
\* The batch indicators of GridRSIStrategyV5_1, recomputed over the whole
\* candle history on every call
\* ------------------------------------------------------------------------
RECURSIVE EwmAt(_, _, _)
\* xs.ewm(span=n, adjust=False).mean() at position i
EwmAt(xs, n, i) ==
    IF i = 1 THEN xs[1] ELSE Ema(EwmAt(xs, n, i - 1), xs[i], n)

\* GridRSIStrategyV5_1._calculate_macd over the closes
calculate_macd(closes, p) ==
    LET line == [i \in 1..Len(closes) |->
                    EwmAt(closes, p.macd_fast, i) - EwmAt(closes, p.macd_slow, i)]
        Out(ml, sl) == [ macd_line |-> ml, signal_line |-> sl, histogram |-> ml - sl ]
    IN  IF Len(closes) < p.macd_slow + p.macd_signal THEN Out(0, 0)
        ELSE Out(line[Len(closes)], EwmAt(line, p.macd_signal, Len(closes)))

\* GridRSIStrategyV5_1._calculate_rsi: rolling means of the gains and of the
\* losses over the last rsi_period price changes (50 without a loss)
calculate_rsi(closes, p) ==
    LET n == Len(closes)
        chg(i) == IF i = 1 THEN 0 ELSE closes[i] - closes[i - 1]
        last == (n - p.rsi_period + 1)..n
        gain == SeqSum([i \in 1..n |-> IF i \in last /\ chg(i) > 0 THEN chg(i) ELSE 0])
        loss == SeqSum([i \in 1..n |-> IF i \in last /\ chg(i) < 0 THEN 0 - chg(i) ELSE 0])
    IN  IF n < p.rsi_period + 1 \/ loss = 0 THEN 50 * RSIScale
        ELSE (100 * RSIScale * gain) \div (gain + loss)

\* GridRSIStrategyV5_1._calculate_atr: rolling mean of the true range over
\* the last atr_period candles
calculate_atr(candles, p) ==
    LET n == Len(candles)
        tr(i) == IF i = 1 THEN candles[1].high - candles[1].low
                 ELSE Max2(candles[i].high - candles[i].low,
                           Max2(Abs(candles[i].high - candles[i - 1].close),
                                Abs(candles[i].low - candles[i - 1].close)))
    IN  IF n < p.atr_period + 1 THEN 0
        ELSE SeqSum([i \in 1..n |-> IF i > n - p.atr_period THEN tr(i) ELSE 0])
                 \div p.atr_period

\* np.std(np.diff(c) / c[:-1]) * np.sqrt(1440), in basis points
Volatility(c) ==
    LET n == Len(c) - 1
        r == [i \in 1..n |-> ((c[i + 1] - c[i]) * BP) \div c[i]]
        mean == SeqSum(r) \div n
        var == SeqSum([i \in 1..n |-> (r[i] - mean) * (r[i] - mean)]) \div n
    IN  (Isqrt(var) * 3795) \div 100

\* GridRSIStrategyV5_2._rsi_signal: <<sig (bp), oversold, overbought>>
rsi_signal(s, p, close_buf) ==
    LET adaptive == Len(close_buf) >= 20
        vf == Clip(Volatility(close_buf) * 2, 5000, 20000)
        os == IF adaptive THEN Clip((p.rsi_zone_oversold * BP) \div vf, 2000, 4000)
              ELSE p.rsi_zone_oversold
        ob == IF adaptive
              THEN Clip(100 * RSIScale
                        - ((100 * RSIScale - p.rsi_zone_overbought) * BP) \div vf,
                        6000, 8000)
              ELSE p.rsi_zone_overbought
        rsi == s.current_rsi
        mid == p.rsi_zone_mid
        sig == IF rsi <= os THEN BP
               ELSE IF rsi >= ob THEN 0 - BP
               ELSE IF rsi < mid THEN ((mid - rsi) * BP) \div (2 * (mid - os))
               ELSE ((mid - rsi) * BP) \div (2 * (ob - mid))
    IN  << sig, os, ob >>

\* ------------------------------------------------------------------------
\* GridEngine
\* ------------------------------------------------------------------------
\* arrays are 1-based sequences; At(arr, i) is Python's arr[i] for 0-based i
At(arr, i) == arr[i + 1]
\* Python's arr[a:b] for 0 <= a, b <= len
PySlice(arr, a, b) == Slice(arr, a + 1, b)

\* GridEngine._check_pivot: <<ok, type>>
check_pivot(arr, i, end, w, is_low) ==
    IF i > end - w THEN
        << IF i < end
           THEN (IF is_low THEN At(arr, i) <= SeqMin(PySlice(arr, i + 1, end + 1))
                           ELSE At(arr, i) >= SeqMax(PySlice(arr, i + 1, end + 1)))
           ELSE TRUE,
           "realtime" >>
    ELSE
        << IF is_low THEN At(arr, i) < SeqMin(PySlice(arr, i + 1, i + w + 1))
                     ELSE At(arr, i) > SeqMax(PySlice(arr, i + 1, i + w + 1)),
           "confirmed" >>

PivotRec(arr, i, tp, times) ==
    [ price |-> At(arr, i), index |-> i, type |-> tp,
      time |-> IF times # << >> /\ i < Len(times) THEN Some(At(times, i)) ELSE None ]

\* one iteration of the find_pivots loop at index i
PivotStep(acc, highs, lows, times, i, end, w, n) ==
    LET lowCand == Len(acc.pl) < n
                   /\ At(lows, i) <= SeqMin(PySlice(lows, Max2(0, i - w), i))
        lchk == check_pivot(lows, i, end, w, TRUE)
        lowOk == lowCand /\ lchk[1]
                 /\ (acc.pl = << >>
                     \/ Abs(At(lows, i) - acc.pl[Len(acc.pl)].price) * 1000 > At(lows, i))
        pl2 == IF lowOk THEN Append(acc.pl, PivotRec(lows, i, lchk[2], times)) ELSE acc.pl
        highCand == Len(acc.ph) < n
                    /\ At(highs, i) >= SeqMax(PySlice(highs, Max2(0, i - w), i))
        hchk == check_pivot(highs, i, end, w, FALSE)
        highOk == highCand /\ hchk[1]
                  /\ (acc.ph = << >>
                      \/ Abs(At(highs, i) - acc.ph[Len(acc.ph)].price) * 1000 > At(highs, i))
        ph2 == IF highOk THEN Append(acc.ph, PivotRec(highs, i, hchk[2], times)) ELSE acc.ph
    IN  [ ph |-> ph2, pl |-> pl2 ]

RECURSIVE PivotLoop(_, _, _, _, _, _, _, _, _)
PivotLoop(acc, highs, lows, times, i, stop, end, w, n) ==
    IF i <= stop THEN acc
    ELSE LET Stepped(a2) ==
                 IF Len(a2.ph) >= n /\ Len(a2.pl) >= n THEN a2
                 ELSE PivotLoop(a2, highs, lows, times, i - 1, stop, end, w, n)
         IN  Stepped(PivotStep(acc, highs, lows, times, i, end, w, n))

\* GridEngine.find_pivots: [ph, pl]
find_pivots(p, highs, lows, times) ==
    LET w == p.pivot_window
        end == Len(highs) - 1
    IN  IF Len(highs) < w + 1 THEN [ ph |-> << >>, pl |-> << >> ]
        ELSE PivotLoop([ ph |-> << >>, pl |-> << >> ], highs, lows, times,
                       end, Max2(w, end - p.pivot_lookback), end, w, p.pivot_n)

PivotPrices(q) == [i \in 1..Len(q) |-> q[i].price]

\* GridEngine.calculate: [upper, lower, meta]
grid_calculate(p, highs, lows, price, s, rsi_sig, times) ==
    LET \* ATR-adaptive spacing and the minimum span it forces
        spacing == Clip(IF s.current_atr > 0 /\ price > 0
                        THEN (s.current_atr * BP) \div price ELSE 0,
                        p.grid_spacing_min, p.grid_spacing_max)
        min_rng == (price * spacing * (p.grid_levels - 1)) \div BP
        ts == s.trend_strength
        \* MACD trend shift and RSI shift of the buffered bounds
        Shifted(pv, upper2, lower2, rng) ==
            LET upper3 ==
                    CASE ts = STRONG_BULLISH -> upper2 + ((upper2 - price) * p.trend_shift_strong_u) \div BP
                      [] ts = BULLISH        -> upper2 + ((upper2 - price) * p.trend_shift_weak_u) \div BP
                      [] ts = BEARISH        -> upper2 - ((upper2 - price) * p.trend_shift_weak_l) \div BP
                      [] ts = STRONG_BEARISH -> upper2 - ((upper2 - price) * p.trend_shift_strong_l) \div BP
                      [] OTHER               -> upper2
                lower3 ==
                    CASE ts = STRONG_BULLISH -> lower2 + ((price - lower2) * p.trend_shift_strong_l) \div BP
                      [] ts = BULLISH        -> lower2 + ((price - lower2) * p.trend_shift_weak_l) \div BP
                      [] ts = BEARISH        -> lower2 - ((price - lower2) * p.trend_shift_weak_u) \div BP
                      [] ts = STRONG_BEARISH -> lower2 - ((price - lower2) * p.trend_shift_strong_u) \div BP
                      [] OTHER               -> lower2
                shift == IF p.rsi_weight > 0
                         THEN (((rng * rsi_sig) \div BP) * p.rsi_weight) \div (BP * 5)
                         ELSE 0
            IN  [ upper |-> upper3 + shift, lower |-> lower3 + shift,
                  meta |-> [ pivots_high |-> pv.ph, pivots_low |-> pv.pl,
                             atr_spacing |-> spacing,
                             dynamic_grid_num |->
                                 Max2(3, (rng * BP) \div (price * spacing) + 1) ] ]
        \* the buffer added on both sides
        Buffered(pv, upper1, lower1, rng) ==
            Shifted(pv, upper1 + (rng * p.grid_buffer_pct) \div BP,
                        lower1 - (rng * p.grid_buffer_pct) \div BP, rng)
        \* the span widened around its middle when it is below the minimum
        Widened(pv, upper0, lower0, rng0) ==
            IF rng0 < min_rng
            THEN Buffered(pv, (upper0 + lower0 + min_rng) \div 2,
                              (upper0 + lower0 - min_rng) \div 2, min_rng)
            ELSE Buffered(pv, upper0, lower0, rng0)
        Ranged(pv, upper0, lower0) ==
            Widened(pv, upper0, lower0,
                    IF upper0 > lower0 THEN upper0 - lower0 ELSE upper0 \div 100)
        lb == Min2(p.grid_refresh_period, Len(highs))
        \* bounds from the pivots, or from the recent extremes without them
        FromPivots(pv) ==
            IF pv.ph = << >> \/ pv.pl = << >>
            THEN Ranged(pv, SeqMax(Slice(highs, Len(highs) - lb + 1, Len(highs))),
                            SeqMin(Slice(lows, Len(lows) - lb + 1, Len(lows))))
            ELSE Ranged(pv, SeqMax(PivotPrices(pv.ph)), SeqMin(PivotPrices(pv.pl)))
    IN  FromPivots(find_pivots(p, highs, lows, times))

\* np.linspace(lower, upper, n).tolist()
Linspace(lower, upper, n) ==
    [k \in 1..n |-> IF k = n THEN upper
                    ELSE lower + ((k - 1) * (upper - lower)) \div (n - 1)]

\* ------------------------------------------------------------------------
\* Signals and the decision context
\* ------------------------------------------------------------------------
\* StrategyContext: cash, the position in the strategy's symbol (None or
\* [size, avg_price]) and the current price of the symbol
Ctx(cash, pos, price) == [ cash |-> cash, pos |-> pos, price |-> price ]

HasPos(ctx) == ctx.pos # None /\ ctx.pos.size > 0

\* StrategyContext.total_value
total_value(ctx) ==
    ctx.cash + (IF ctx.pos = None THEN 0 ELSE (ctx.pos.size * ctx.price) \div QtyScale)

\* RiskController._sell
SellSig(size, reason) ==
    [ side |-> "SELL", size |-> size, size_in_quote |-> FALSE, reason |-> reason ]

BuySig(size, reason) ==
    [ side |-> "BUY", size |-> size, size_in_quote |-> TRUE, reason |-> reason ]

\* ------------------------------------------------------------------------
\* RiskController
\* ------------------------------------------------------------------------
BlackSwanPause == 1800

\* a check that restarts the pause on every candle that arrives during it
check_black_swan_extending(p, buf, ts, s) ==
    IF ts < s.black_swan_pause_until
    THEN [ hit |-> TRUE, until |-> ts + BlackSwanPause ]
    ELSE IF Len(buf) < 5
    THEN [ hit |-> FALSE, until |-> s.black_swan_pause_until ]
    ELSE LET b5 == buf[Len(buf) - 4]
             b1 == buf[Len(buf)]
         IN  IF b5 > 0 /\ Abs(b1 - b5) * BP >= p.black_swan_pct * b5
             THEN [ hit |-> TRUE, until |-> ts + BlackSwanPause ]
             ELSE [ hit |-> FALSE, until |-> s.black_swan_pause_until ]

\* RiskController.check_black_swan: [hit, until]
check_black_swan(p, buf, ts, s) ==
    IF ts < s.black_swan_pause_until
    THEN [ hit |-> TRUE, until |-> s.black_swan_pause_until ]
    ELSE IF Len(buf) < 5
    THEN [ hit |-> FALSE, until |-> s.black_swan_pause_until ]
    ELSE LET b5 == buf[Len(buf) - 4]
             b1 == buf[Len(buf)]
         IN  IF b5 > 0 /\ Abs(b1 - b5) * BP >= p.black_swan_pct * b5
             THEN [ hit |-> TRUE, until |-> ts + BlackSwanPause ]
             ELSE [ hit |-> FALSE, until |-> s.black_swan_pause_until ]

\* RiskController.check_stop_loss: [sigs, peaks]
check_stop_loss(p, d, ctx, s, peaks) ==
    IF ~HasPos(ctx) THEN [ sigs |-> << >>, peaks |-> peaks ]
    ELSE
    LET pos == ctx.pos
        cp == d.close
        pk == Max2(IF peaks = None THEN pos.avg_price ELSE peaks.v, cp)
        pnl == ((cp - pos.avg_price) * BP) \div pos.avg_price
        shrink == Abs(s.histogram) < Abs(s.prev_histogram) /\ Abs(s.prev_histogram) > 0
        tp == (pk * (BP - p.trailing_stop_pct)) \div BP
        sp == IF p.trailing_stop /\ pnl > 100
              THEN (pk * (BP - p.trailing_stop_pct)) \div BP
              ELSE (pos.avg_price * (BP - p.stop_loss_pct)) \div BP
    IN  IF pos.avg_price <= 0 THEN [ sigs |-> << >>, peaks |-> Some(pk) ]
        ELSE IF p.trailing_stop /\ pnl >= p.trailing_trigger_pct /\ shrink /\ cp <= tp
        THEN [ sigs |-> << SellSig(pos.size, "trailing") >>, peaks |-> None ]
        ELSE IF cp <= sp
        THEN [ sigs |-> << SellSig(pos.size, "stop_loss") >>, peaks |-> None ]
        ELSE [ sigs |-> << >>, peaks |-> Some(pk) ]

\* check_death_cross without the zero-axis condition
check_death_cross_any_level(ctx, s, peaks) ==
    IF ~(s.prev_macd_line > s.prev_signal_line /\ s.macd_line < s.signal_line)
    THEN [ sigs |-> << >>, peaks |-> peaks ]
    ELSE IF HasPos(ctx)
    THEN [ sigs |-> << SellSig(ctx.pos.size, "death_cross") >>, peaks |-> None ]
    ELSE [ sigs |-> << >>, peaks |-> peaks ]

\* RiskController.check_death_cross: [sigs, peaks]
check_death_cross(ctx, s, peaks) ==
    IF ~(s.prev_macd_line > s.prev_signal_line /\ s.macd_line < s.signal_line)
    THEN [ sigs |-> << >>, peaks |-> peaks ]
    ELSE IF s.macd_line >= 0 THEN [ sigs |-> << >>, peaks |-> peaks ]
    ELSE IF HasPos(ctx)
    THEN [ sigs |-> << SellSig(ctx.pos.size, "death_cross") >>, peaks |-> None ]
    ELSE [ sigs |-> << >>, peaks |-> peaks ]

\* check_anomaly with conservative mode set one conflict later
check_anomaly_late(s, rsi_sig) ==
    LET bull == s.trend_strength \in {STRONG_BULLISH, BULLISH}
        bear == s.trend_strength \in {STRONG_BEARISH, BEARISH}
        conflict == (bull /\ rsi_sig < 0 - 5000) \/ (bear /\ rsi_sig > 5000)
        cc == IF conflict THEN s.consecutive_conflict + 1
              ELSE Max2(0, s.consecutive_conflict - 1)
    IN  [s EXCEPT !.consecutive_conflict = cc, !.conservative_mode = (cc > 3)]

\* RiskController.check_anomaly: the state with the conflict counter updated
check_anomaly(s, rsi_sig) ==
    LET bull == s.trend_strength \in {STRONG_BULLISH, BULLISH}
        bear == s.trend_strength \in {STRONG_BEARISH, BEARISH}
        conflict == (bull /\ rsi_sig < 0 - 5000) \/ (bear /\ rsi_sig > 5000)
        cc == IF conflict THEN s.consecutive_conflict + 1
              ELSE Max2(0, s.consecutive_conflict - 1)
    IN  [s EXCEPT !.consecutive_conflict = cc, !.conservative_mode = (cc >= 3)]

\* RiskController.is_in_cooldown
is_in_cooldown(p, ts, s) ==
    s.last_trade_ts > 0 /\ (ts - s.last_trade_ts) < p.cooldown_minutes * 60

\* ------------------------------------------------------------------------
\* Dual matrix
\* ------------------------------------------------------------------------
DUAL_MATRIX(trend, z) ==
    CASE trend = STRONG_BULLISH /\ z = "os" -> << 5, "heavy_buy" >>
      [] trend = STRONG_BULLISH /\ z = "wk" -> << 4, "buy" >>
      [] trend = STRONG_BULLISH /\ z = "nt" -> << 3, "light_buy" >>
      [] trend = STRONG_BULLISH /\ z = "ob" -> << 2, "hold" >>
      [] trend = BULLISH /\ z = "os" -> << 4, "buy" >>
      [] trend = BULLISH /\ z = "wk" -> << 3, "buy" >>
      [] trend = BULLISH /\ z = "nt" -> << 2, "light_buy" >>
      [] trend = BULLISH /\ z = "ob" -> << 1, "hold" >>
      [] trend = NEUTRAL /\ z = "os" -> << 3, "light_buy" >>
      [] trend = NEUTRAL /\ z = "wk" -> << 2, "hold" >>
      [] trend = NEUTRAL /\ z = "nt" -> << 1, "hold" >>
      [] trend = NEUTRAL /\ z = "ob" -> << 1, "reduce" >>
      [] trend = BEARISH /\ z = "os" -> << 2, "light_buy" >>
      [] trend = BEARISH /\ z = "wk" -> << 1, "stop" >>
      [] trend = BEARISH /\ z = "nt" -> << 0, "stop" >>
      [] trend = BEARISH /\ z = "ob" -> << 2, "sell" >>
      [] trend = STRONG_BEARISH /\ z = "os" -> << 1, "hold" >>
      [] trend = STRONG_BEARISH /\ z = "wk" -> << 0, "stop" >>
      [] trend = STRONG_BEARISH /\ z = "nt" -> << 0, "stop" >>
      [] trend = STRONG_BEARISH /\ z = "ob" -> << 3, "sell" >>
      [] OTHER -> << 0, "hold" >>

\* a dual_evaluate that answers stop when a strong trend meets the opposite
\* RSI extreme
dual_evaluate_stopping(trend, rsi, p) ==
    LET z == IF rsi < p.rsi_zone_oversold THEN "os"
             ELSE IF rsi < p.rsi_zone_mid THEN "wk"
             ELSE IF rsi < p.rsi_zone_overbought THEN "nt"
             ELSE "ob"
    IN  IF (trend = STRONG_BULLISH /\ z = "ob") \/ (trend = STRONG_BEARISH /\ z = "os")
        THEN << 0, "stop" >>
        ELSE DUAL_MATRIX(trend, z)

\* dual_evaluate: <<strength, action>>
dual_evaluate(trend, rsi, p) ==
    LET z == IF rsi < p.rsi_zone_oversold THEN "os"
             ELSE IF rsi < p.rsi_zone_mid THEN "wk"
             ELSE IF rsi < p.rsi_zone_overbought THEN "nt"
             ELSE "ob"
    IN  DUAL_MATRIX(trend, z)

\* ------------------------------------------------------------------------
\* Position sizing
\* ------------------------------------------------------------------------
\* GridRSIStrategyV5_2._calc_size (quote notional, cents)
calc_size(s, p, ctx, is_buy) ==
    LET n == Max2(1, Len(s.grid_prices))
        sz0 == ((total_value(ctx) \div n) * (BP + TREND_BOOST(s.trend_strength))) \div BP
        sz1 == (sz0 * (100 * RSIScale - Abs(s.current_rsi - 50 * RSIScale)))
               \div (100 * RSIScale)
        sz2 == IF is_buy /\ s.macd_line < 0 THEN sz1 \div 2 ELSE sz1
        sz3 == IF s.conservative_mode THEN sz2 \div 2 ELSE sz2
    IN  Min2(Max2(sz3, p.min_order_usdt), (ctx.cash * 95) \div 100)

\* Python round(): round half to even, for a >= 0 and b > 0
RoundDiv(a, b) ==
    LET q == a \div b
        r == a % b
    IN  IF 2 * r > b THEN q + 1
        ELSE IF 2 * r < b THEN q
        ELSE IF q % 2 = 0 THEN q ELSE q + 1

\* _pos_layers divides by the layer size: ZeroDivisionError when it is 0
LayersRaises(s, p, ctx) == HasPos(ctx) /\ calc_size(s, p, ctx, TRUE) = 0

\* GridRSIStrategyV5_2._pos_layers
pos_layers(s, p, ctx, cp) ==
    IF ~HasPos(ctx) THEN 0
    ELSE LET szl == calc_size(s, p, ctx, TRUE)
             pos_val == (ctx.pos.size * cp) \div QtyScale
         IN  IF szl = 0 THEN 0 ELSE Max2(1, RoundDiv(pos_val, szl))

\* ------------------------------------------------------------------------
\* GridRSIStrategyV5_2
\* ------------------------------------------------------------------------
\* Candle (MarketData): [ts, open, high, low, close]
LastCandleOf(d) == [ open |-> d.open, high |-> d.high, low |-> d.low, close |-> d.close ]

\* the symbol every slot trades
Symbol == "BTC-USDT"

\* GridRSIStrategyV5_2.__init__ (no file at config_path yet)
NewStrategy(ov) ==
    [ params |-> InitParams(ov),
      symbol |-> Symbol,
      last_config_mtime |-> 0,
      buf_len |-> BufLen(InitParams(ov)),
      state |-> NewStrategyState,
      ind |-> NewIndicators(InitParams(ov)),
      peaks |-> None,
      close_buf |-> << >>, high_buf |-> << >>, low_buf |-> << >>,
      data_buffer |-> << >>,
      current_price |-> 0,
      equity_history |-> << >>,
      initialized |-> FALSE ]

\* GridRSIStrategyV5_2.initialize: state, indicator engine and risk controller
\* are rebuilt, the equity history and the candle-object buffer are cleared;
\* the close/high/low buffers are kept
initialize(st) ==
    [st EXCEPT !.initialized = TRUE,
               !.state = NewStrategyState,
               !.ind = NewIndicators(st.params),
               !.peaks = None,
               !.equity_history = << >>,
               !.data_buffer = << >>]

\* GridRSIStrategyV5_2._update_buffer
update_buffer(st, d) ==
    LET m == st.buf_len
        Updated(u) ==
            [st EXCEPT !.close_buf = DequeAppend(st.close_buf, d.close, m),
                       !.high_buf = DequeAppend(st.high_buf, d.high, m),
                       !.low_buf = DequeAppend(st.low_buf, d.low, m),
                       !.data_buffer = DequeAppend(st.data_buffer, d, m),
                       !.current_price = d.close,
                       !.ind = u.ind,
                       !.state = u.s]
    IN  Updated(IndicatorsUpdate(st.ind, st.state, st.params, d))

\* GridRSIStrategyV5_2._check_reset
check_reset(st) ==
    \/ Len(st.close_buf) - st.state.last_grid_update >= st.params.cycle_reset_period
    \/ /\ st.equity_history # << >>
       /\ LET pk == SeqMax(st.equity_history)
              last == st.equity_history[Len(st.equity_history)]
          IN  pk > 0 /\ ((last - pk) * BP) \div pk <= 0 - st.params.max_drawdown_reset

\* Python truthiness of an optional number: neither None nor 0
Truthy(o) == o # None /\ o.v # 0

\* minimum re-entry interval of _grid_orders (basis points)
GridInterval(s, p, cp) ==
    IF Truthy(s.grid_upper) /\ Truthy(s.grid_lower) /\ s.actual_levels > 1 /\ cp > 0
    THEN LET gi == Abs(s.grid_upper.v - s.grid_lower.v) \div (s.actual_levels - 1)
         IN  Clip((((gi * BP) \div cp) * 8) \div 10, p.min_trade_interval_pct, 200)
    ELSE p.min_trade_interval_pct

IsBuyAction(action) == action \in {"heavy_buy", "buy", "light_buy"}

\* a grid level crossed downward / upward between the last and this candle
CrossDown(s, d) == \E i \in 1..Len(s.grid_prices) :
                       s.last_candle.low > s.grid_prices[i] /\ d.low <= s.grid_prices[i]
CrossUp(s, d) == \E i \in 1..Len(s.grid_prices) :
                       s.last_candle.high < s.grid_prices[i] /\ d.high >= s.grid_prices[i]

\* a buy loop without the minimum re-entry interval
GridBuyAnyPrice(s, p, d, ctx, action) ==
    LET cp == d.close
        sz == calc_size(s, p, ctx, TRUE)
        ok == /\ CrossDown(s, d)
              /\ IsBuyAction(action)
              /\ pos_layers(s, p, ctx, cp) < p.max_positions
              /\ s.current_rsi < p.rsi_extreme_buy
              /\ ~(sz > (ctx.cash * 95) \div 100)
    IN  IF ok
        THEN << BuySig(IF action = "light_buy" THEN Max2(sz \div 2, p.min_order_usdt) ELSE sz,
                       "grid_buy") >>
        ELSE << >>

\* the buy loop of _grid_orders: the signals it appends
GridBuy(s, p, d, ctx, action) ==
    LET cp == d.close
        gip == GridInterval(s, p, cp)
        sz == calc_size(s, p, ctx, TRUE)
        ok == /\ CrossDown(s, d)
              /\ IsBuyAction(action)
              /\ pos_layers(s, p, ctx, cp) < p.max_positions
              /\ s.current_rsi < p.rsi_extreme_buy
              /\ ~(HasPos(ctx) /\ cp * BP > ctx.pos.avg_price * (BP - gip))
              /\ ~(sz > (ctx.cash * 95) \div 100)
    IN  IF ok
        THEN << BuySig(IF action = "light_buy" THEN Max2(sz \div 2, p.min_order_usdt) ELSE sz,
                       "grid_buy") >>
        ELSE << >>

\* a sell loop that sells on every upward crossing, whatever the action and
\* the entry price
GridSellAlways(s, p, d, ctx, action) ==
    LET cp == d.close
        layers == pos_layers(s, p, ctx, cp)
        sz0 == Min2(ctx.pos.size, ctx.pos.size \div Max2(1, layers))
        ok == /\ CrossUp(s, d)
              /\ HasPos(ctx)
              /\ ~(s.current_rsi <= p.rsi_extreme_sell)
    IN  IF ok
        THEN << SellSig(IF action = "reduce" THEN sz0 \div 2 ELSE sz0, "grid_sell") >>
        ELSE << >>

\* the sell loop of _grid_orders: the signals it appends
GridSell(s, p, d, ctx, action) ==
    LET cp == d.close
        gip == GridInterval(s, p, cp)
        profitable == ctx.pos.avg_price * BP < cp * (BP - gip)
        layers == pos_layers(s, p, ctx, cp)
        sz0 == Min2(ctx.pos.size, ctx.pos.size \div Max2(1, layers))
        ok == /\ CrossUp(s, d)
              /\ HasPos(ctx)
              /\ (action \in {"sell", "reduce"} \/ profitable)
              /\ ~(s.current_rsi <= p.rsi_extreme_sell)
    IN  IF ok
        THEN << SellSig(IF action = "reduce" THEN sz0 \div 2 ELSE sz0, "grid_sell") >>
        ELSE << >>

\* _grid_orders reaches a _pos_layers call that divides by zero
GridRaises(s, p, d, ctx, action) ==
    /\ s.grid_prices # << >> /\ s.last_candle # None
    /\ LayersRaises(s, p, ctx)
    /\ \/ CrossDown(s, d) /\ IsBuyAction(action)
       \/ /\ CrossUp(s, d)
          /\ (action \in {"sell", "reduce"}
              \/ ctx.pos.avg_price * BP < d.close * (BP - GridInterval(s, p, d.close)))
          /\ ~(s.current_rsi <= p.rsi_extreme_sell)

\* GridRSIStrategyV5_2._grid_orders
grid_orders(s, p, d, ctx, action) ==
    IF s.grid_prices = << >> \/ s.last_candle = None THEN << >>
    ELSE GridBuy(s, p, d, ctx, action) \o GridSell(s, p, d, ctx, action)

\* the upper limit of the level count on_data applies
MaxLevels(p) == p.grid_levels * 3

\* a level count without the upper limit
LevelCountUncapped(p, dyn) == Max2(3, dyn)

\* al = max(3, min(dyn, grid_levels * 3))
LevelCount(p, dyn) == Max2(3, Min2(dyn, MaxLevels(p)))

\* steps 3-5 of on_data: trend, RSI signal, grid snapshot
RefreshGrid(st, d) ==
    LET p == st.params
        times == [i \in 1..Len(st.data_buffer) |-> st.data_buffer[i].ts]
        WithGrid(s1, rsi_sig, g, al) ==
            [ rsi_sig |-> rsi_sig,
              s |-> [s1 EXCEPT !.grid_upper = Some(g.upper), !.grid_lower = Some(g.lower),
                               !.grid_prices = Linspace(g.lower, g.upper, al),
                               !.last_grid_update = Len(st.close_buf),
                               !.pivots = g.meta,
                               !.actual_levels = al] ]
        WithBounds(s1, rsi_sig, g) ==
            WithGrid(s1, rsi_sig, g,
                     LevelCount(p, g.meta.dynamic_grid_num))
        WithSignal(s1, rsi_sig) ==
            WithBounds(s1, rsi_sig,
                       grid_calculate(p, st.high_buf, st.low_buf, d.close, s1,
                                      rsi_sig, times))
        WithTrend(s1) == WithSignal(s1, rsi_signal(s1, p, st.close_buf)[1])
    IN  WithTrend([st.state EXCEPT !.trend_strength = TrendOf(st.state)])

\* the liquidation loop of on_data: one SELL of the whole position of the
\* strategy's symbol when it is open
liquidate(ctx, reason) ==
    IF HasPos(ctx) THEN << SellSig(ctx.pos.size, reason) >> ELSE << >>

\* steps 6b-7 of on_data, taken when the black-swan check does not hit
\* (st1: buffers updated, s3: state after the grid refresh, the anomaly and
\* the black-swan check): cycle reset, stop loss, death cross, matrix, grid
normal_cycle(st1, s3, d, ctx) ==
    LET p == st1.params
        \* step 7: the grid orders, unless the strategy is cooling down
        Grid(s5, peaks, sigs, action, cool) ==
            IF ~cool /\ GridRaises(s5, p, d, ctx, action) THEN
                [ st |-> [st1 EXCEPT !.state = s5, !.peaks = peaks],
                  signals |-> << >>, path |-> "normal", raised |-> TRUE ]
            ELSE
                [ st |-> [st1 EXCEPT !.state = [s5 EXCEPT !.last_candle = LastCandleOf(d)],
                                     !.peaks = peaks],
                  signals |-> sigs \o (IF cool THEN << >>
                                       ELSE grid_orders(s5, p, d, ctx, action)),
                  path |-> "normal", raised |-> FALSE ]
        Acted(s5, peaks, sigs, action) ==
            Grid(s5, peaks, sigs, action, is_in_cooldown(p, d.ts, s5))
        Matrix(s4, peaks, sigs, da) ==
            Acted([s4 EXCEPT !.last_action = da[2]], peaks, sigs, da[2])
        DeathCross(s4, sigs, dc) ==
            Matrix(s4, dc.peaks, sigs \o dc.sigs,
                   dual_evaluate(s4.trend_strength, s4.current_rsi, p))
        StopLoss(s4, rsigs, sl) ==
            DeathCross(s4, rsigs \o sl.sigs, check_death_cross(ctx, s4, sl.peaks))
        Risk(s4, rsigs) == StopLoss(s4, rsigs, check_stop_loss(p, d, ctx, s4, st1.peaks))
    IN
    IF check_reset([st1 EXCEPT !.state = s3])
    THEN Risk([s3 EXCEPT !.grid_upper = None, !.grid_lower = None,
                         !.last_grid_update = Len(st1.close_buf),
                         !.conservative_mode = FALSE,
                         !.consecutive_conflict = 0],
              liquidate(ctx, "cycle_reset"))
    ELSE Risk(s3, << >>)

\* a black-swan branch that liquidates but does not return: the cycle goes
\* on into the stop-loss, death-cross and grid steps
black_swan_cycle_no_return(st1, s3, d, ctx) ==
    [normal_cycle(st1, s3, d, ctx) EXCEPT !.signals = liquidate(ctx, "black_swan") \o @,
                                          !.path = "black_swan"]

\* the black-swan branch of on_data (st1: buffers updated, s3: state after
\* the grid refresh, the anomaly and the black-swan check): liquidate, record
\* the candle and return
black_swan_cycle(st1, s3, d, ctx) ==
    [ st |-> [st1 EXCEPT !.state = [s3 EXCEPT !.last_candle = LastCandleOf(d)]],
      signals |-> liquidate(ctx, "black_swan"),
      path |-> "black_swan", raised |-> FALSE ]

\* GridRSIStrategyV5_2.on_data: [st, signals, path, raised]
\* the parameters whose change needs a new indicator engine
RESET_PARAMS == { "macd_fast", "macd_slow", "macd_signal", "rsi_period", "atr_period" }

\* an _apply_config_file that takes over what it could read of a file
\* before it finds the file broken
apply_config_file_partial(st, file) ==
    IF file = None THEN st
    ELSE [st EXCEPT !.params =
                        [k \in DOMAIN st.params |->
                            IF k \in DOMAIN file.data THEN file.data[k] ELSE st.params[k]]]

\* GridRSIStrategyV5_2._apply_config_file.  file is what config_path holds
\* (None: nothing there): parses tells whether json.load accepts the text,
\* is_dict whether the document is an object, data what the text says.
\* Every exception is caught and leaves the strategy as it was.
apply_config_file(st, file) ==
    IF file = None THEN st
    ELSE IF ~file.parses \/ ~file.is_dict THEN st
    ELSE LET keys == { k \in DOMAIN file.data :
                          k \in DOMAIN DEFAULT_PARAMS \/ k = "symbol" }
         IN  [st EXCEPT !.params =
                            [k \in (DOMAIN st.params) \cup keys |->
                                IF k \in keys THEN file.data[k] ELSE st.params[k]],
                        !.symbol = IF "symbol" \in DOMAIN file.data
                                   THEN file.data.symbol ELSE @,
                        !.last_config_mtime = file.mtime]

\* a reload that keeps the indicator engine whatever changed
maybe_reload_params_keeping_engine(st, env) ==
    IF env.flag \/ (env.due /\ env.file # None
                              /\ env.file.mtime > st.last_config_mtime)
    THEN apply_config_file(st, env.file)
    ELSE st

\* GridRSIStrategyV5_2._maybe_reload_params, step 0 of on_data.
\* env = [flag, due, file]: the .reload flag file exists; the poll counter
\* has reached its period; what config_path holds.  The risk controller and
\* the grid engine read the strategy's params; the indicator engine reads
\* its periods there and keeps the smoothing factors of its construction.
maybe_reload_params(st, env) ==
    LET Applied(st1) ==
            IF \E k \in RESET_PARAMS : st1.params[k] # st.params[k]
            THEN [st1 EXCEPT !.ind = NewIndicators(st1.params)]
            ELSE st1
    IN  IF env.flag \/ (env.due /\ env.file # None
                                  /\ env.file.mtime > st.last_config_mtime)
        THEN Applied(apply_config_file(st, env.file))
        ELSE st

\* steps 1-7 of on_data (step 0 leaves the strategy alone when no reload
\* is due).
\* path names the return taken: "warmup", "black_swan" or "normal"; raised
\* tells whether the call ended by an exception
on_data(st0, d, ctx) ==
    LET \* step 6: the black-swan check decides the branch
        Swan(st1, s2, bs) ==
            IF bs.hit
            THEN black_swan_cycle(st1, [s2 EXCEPT !.black_swan_pause_until = bs.until],
                                  d, ctx)
            ELSE normal_cycle(st1, [s2 EXCEPT !.black_swan_pause_until = bs.until],
                              d, ctx)
        Risk(st1, s2) ==
            Swan(st1, s2, check_black_swan(st1.params, st1.close_buf, d.ts, s2))
        Refreshed(st1, rg) == Risk(st1, check_anomaly(rg.s, rg.rsi_sig))
        \* steps 1-2 are done: the warm-up gate, then steps 3-5
        Buffered(st1) ==
            IF ~warmup_done(st1.ind, st1.params) THEN
                [ st |-> [st1 EXCEPT !.state.last_candle = LastCandleOf(d)],
                  signals |-> << >>, path |-> "warmup", raised |-> FALSE ]
            ELSE Refreshed(st1, RefreshGrid(st1, d))
    IN  Buffered(update_buffer(st0, d))

\* GridRSIStrategyV5_2.on_fill
on_fill(st, side, ts) ==
    [st EXCEPT !.state.grid_touch_count = IF side = "BUY" THEN @ + 1 ELSE @,
               !.state.last_trade_ts = ts]

\* GridRSIStrategyV5_2.get_status: the fields the dashboard displays
get_status(st, ctx) ==
    LET s == st.state
        da == dual_evaluate(s.trend_strength, s.current_rsi, st.params)
    IN  [ grid_upper |-> IF s.grid_upper = None THEN 0 ELSE s.grid_upper.v,
          grid_lower |-> IF s.grid_lower = None THEN 0 ELSE s.grid_lower.v,
          grid_lines |-> s.grid_prices,
          position_count |-> pos_layers(s, st.params, ctx, st.current_price),
          current_rsi |-> s.current_rsi,
          macd |-> s.macd_line, macdsignal |-> s.signal_line, macdhist |-> s.histogram,
          trend_strength |-> s.trend_strength, current_atr |-> s.current_atr,
          dual_strength |-> da[1], dual_action |-> da[2],
          action_intent |-> s.last_action,
          conservative_mode |-> s.conservative_mode ]

\* ------------------------------------------------------------------------
\* PaperExecutor
\* ------------------------------------------------------------------------
FeeRate == 10
\* the adaptive slippage model draws base*(1 + N(0, 0.3)) clipped to
\* [0.0001, 0.005]; the model draws from the two clip bounds
Slippages == {1, 50}

\* PaperExecutor.__init__ (n_orders and last_fill stand for _orders: the
\* number of orders it holds and the timestamp of the last FILLED one)
NewExecutor(initial_capital) ==
    [ cash |-> initial_capital, initial_capital |-> initial_capital,
      pos |-> None, n_orders |-> 0, last_fill |-> None,
      current_price |-> 0, current_time |-> None ]

\* PaperExecutor.update_market_data
update_market_data(ex, ts, price) ==
    [ex EXCEPT !.current_time = Some(ts), !.current_price = price]

\* PaperExecutor.to_dict: the document save_state writes.  positions holds
\* one entry per position, keyed by its symbol; the numbers are floats,
\* which json.dump writes by repr and json.load reads back exactly;
\* entry_time is written as its isoformat text, [iso |-> t]
to_dict(ex) ==
    [ cash |-> ex.cash, initial_capital |-> ex.initial_capital,
      positions |->
          IF ex.pos = None THEN << >>
          ELSE << [ key |-> Symbol, symbol |-> Symbol,
                    size |-> ex.pos.size, avg_price |-> ex.pos.avg_price,
                    entry_time |-> IF ex.pos.entry_time # None
                                   THEN [ iso |-> ex.pos.entry_time.v ]
                                   ELSE None ] >> ]

\* a from_dict that keeps the positions the executor holds
from_dict_keeping_positions(ex, data) ==
    [ex EXCEPT !.cash = data.cash, !.initial_capital = data.initial_capital]

\* PaperExecutor.from_dict: cash and initial_capital are taken from the
\* document, _positions is cleared and rebuilt from its entries
\* (datetime.fromisoformat parses entry_time)
from_dict(ex, data) ==
    [ex EXCEPT !.cash = data.cash, !.initial_capital = data.initial_capital,
               !.pos = IF data.positions = << >> THEN None
                       ELSE [ size |-> data.positions[1].size,
                              avg_price |-> data.positions[1].avg_price,
                              entry_time |->
                                  IF data.positions[1].entry_time # None
                                  THEN Some(data.positions[1].entry_time.iso)
                                  ELSE None ]]

\* PaperExecutor.reset
executor_reset(ex) ==
    [ex EXCEPT !.cash = ex.initial_capital, !.pos = None, !.n_orders = 0,
               !.last_fill = None]

\* fields of the FillEvent dataclass and the keywords submit_order passes to it
FillEventFields ==
    { "order_id", "symbol", "side", "filled_size", "filled_price",
      "timestamp", "fee", "pnl", "meta" }
FillEventKwargs ==
    { "order_id", "symbol", "side", "filled_size", "filled_price",
      "timestamp", "fee", "pnl", "quote_amount" }
\* FillEvent(**kwargs) raises TypeError on an unknown keyword
FillEventRaises == ~(FillEventKwargs \subseteq FillEventFields)

\* the values submit_order stores in order.meta['reject_reason']
RejectReasons ==
    { "invalid_execution_price", "insufficient_cash", "insufficient_position" }

\* a rejection that books the order's fee
reject_order_charging(ex, reason, fee) ==
    [ ex |-> [ex EXCEPT !.n_orders = @ + 1, !.cash = @ - fee], status |-> "REJECTED",
      reject_reason |-> Some(reason),
      raised |-> FALSE, filled_size |-> 0, avg_price |-> 0 ]

\* the three rejections of submit_order: the order is marked REJECTED, the
\* reason goes to its meta, it is stored in _orders and its id returned
reject_order(ex, reason, fee) ==
    [ ex |-> [ex EXCEPT !.n_orders = @ + 1], status |-> "REJECTED",
      reject_reason |-> Some(reason),
      raised |-> FALSE, filled_size |-> 0, avg_price |-> 0 ]

\* PaperExecutor.submit_order:
\* [ex, status, reject_reason, raised, filled_size, avg_price]
\* status is the order's status when the call ends; raised tells whether the
\* call ended by an exception (the account update precedes the FillEvent)
submit_order(ex, sig, slip) ==
    LET ep == IF sig.side = "BUY"
              THEN (ex.current_price * (BP + slip)) \div BP
              ELSE (ex.current_price * (BP - slip)) \div BP
        quote == sig.side = "BUY" /\ sig.size_in_quote
        tv == IF quote THEN sig.size ELSE (sig.size * ep) \div QtyScale
        esz == IF quote THEN (sig.size * QtyScale) \div ep ELSE sig.size
        fee == (tv * FeeRate) \div BP
    IN
    IF quote /\ ep <= 0 THEN reject_order(ex, "invalid_execution_price", 0)
    ELSE IF sig.side = "BUY" /\ tv + fee > ex.cash
    THEN reject_order(ex, "insufficient_cash", fee)
    ELSE IF sig.side = "SELL" /\ (ex.pos = None \/ ex.pos.size < esz)
    THEN reject_order(ex, "insufficient_position", fee)
    ELSE
    LET old == IF ex.pos = None
               THEN [ size |-> 0, avg_price |-> 0, entry_time |-> ex.current_time ]
               ELSE ex.pos
        bsize == old.size + esz
        bpos == [ size |-> bsize,
                  avg_price |-> IF bsize > 0
                                THEN (old.size * old.avg_price + esz * ep) \div bsize
                                ELSE 0,
                  entry_time |-> old.entry_time ]
        ssize == old.size - esz
        spos == IF ssize <= 0 THEN None ELSE [old EXCEPT !.size = ssize]
        ex2 == IF sig.side = "BUY"
               THEN [ex EXCEPT !.cash = @ - (tv + fee), !.pos = bpos, !.n_orders = @ + 1,
                               !.last_fill = ex.current_time]
               ELSE [ex EXCEPT !.cash = @ + (tv - fee), !.pos = spos, !.n_orders = @ + 1,
                               !.last_fill = ex.current_time]
    IN  [ ex |-> ex2, status |-> "FILLED", reject_reason |-> None,
          raised |-> FillEventRaises,
          filled_size |-> esz, avg_price |-> ep ]

\* ------------------------------------------------------------------------
\* MultiStrategyRunner
\* ------------------------------------------------------------------------
VARIABLES
    slots,       \* slot id -> StrategySlot control fields
    executor,    \* slot id -> PaperExecutor of the slot
    strategy,    \* slot id -> GridRSIStrategyV5_2 of the slot
    trades,      \* MultiStrategyRunner._trades: slot id -> trade list
    files,       \* slot id -> persisted documents (state_file, trades_file)
    dash,        \* slot id -> last snapshot pushed to the dashboard
    slot_order,  \* iteration order of MultiStrategyRunner._slots
    clock,       \* timestamp of the last candle delivered
    bars,        \* number of candles delivered
    ops,         \* number of control operations performed
    faults,      \* number of faults injected
    inflight,    \* where the feed's thread stands inside on_bar (None: outside)
    cycle,       \* slot id -> what the last candle cycle did for the slot
    lastOp       \* the last operation and its inputs

vars == << slots, executor, strategy, trades, files, dash, slot_order,
           clock, bars, ops, faults, inflight, cycle, lastOp >>

SlotIds == {"A", "B"}

\* configured initial balance of every slot (cents)
SlotBalance == 1000 * 100

\* StrategySlot.is_paused
is_paused(sl) == ~sl.pause_event

\* a condition that forgets the pause flag
SlotActiveIgnoringPause(sl) == sl.is_running

\* the condition under which _process_bar runs the decision step
SlotActive(sl) == sl.is_running /\ ~is_paused(sl)

\* the slot's state as MultiStrategyRunner.get_status reports it through
\* is_running and is_paused, is_running read first
SlotState(sl) ==
    IF ~sl.is_running THEN "stopped"
    ELSE IF is_paused(sl) THEN "paused" ELSE "running"

\* StrategySlot.start / pause / stop
slot_start(sl) == [sl EXCEPT !.is_running = TRUE, !.pause_event = TRUE]
slot_pause(sl) == [sl EXCEPT !.pause_event = FALSE]
slot_stop(sl) == [sl EXCEPT !.is_running = FALSE]

\* StrategySlot(...) after __post_init__
NewSlot(balance) ==
    [ is_running |-> FALSE, pause_event |-> TRUE, bar_count |-> 0,
      initial_balance |-> balance ]

NoFiles == [ state |-> None, trades |-> None ]

\* what a candle cycle did for a slot: the fault injected, the slippage drawn
\* (0: no order, no draw), whether the decision step ran, its signals and
\* return path, the outcome of every order, whether the documents were
\* saved, whether the snapshot was pushed, and where the cycle raised
NoCycle == [ fault |-> "none", slip |-> 0,
             ran |-> FALSE, signals |-> << >>, outcomes |-> << >>, path |-> "none",
             saved |-> FALSE, pushed |-> FALSE, raised |-> "none" ]

\* the runner's whole state as one record
World == [ slots |-> slots, executor |-> executor, strategy |-> strategy,
           trades |-> trades, files |-> files, dash |-> dash, cycle |-> cycle ]

\* a save that writes one document shared by all slots
save_slot_shared_file(w, s) ==
    [w EXCEPT !.files = [t \in DOMAIN w.files |->
                           [ state |-> to_dict(w.executor[s]),
                             trades |-> Some(w.trades[s]) ]]]

\* MultiStrategyRunner._save_slot
save_slot(w, s) ==
    [w EXCEPT !.files[s] = [ state |-> to_dict(w.executor[s]),
                             trades |-> Some(w.trades[s]) ]]

\* the trade record _process_bar appends for a filled order
TradeRec(d, sig, r) ==
    [ time |-> d.ts, side |-> sig.side,
      size |-> IF r.filled_size # 0 THEN r.filled_size ELSE sig.size,
      price |-> d.close, reason |-> sig.reason ]

\* the signal loop of _process_bar: submits every signal in turn.
\* acc = [ex, trades, outcomes, cpos, alias]; cpos is the Position object the
\* context holds (the executor mutates it in place while alias is TRUE)
RECURSIVE exec_signals(_, _, _, _)
exec_signals(acc, sigs, slip, d) ==
    IF sigs = << >> THEN acc
    ELSE
    LET Submitted(sig, r) ==
            LET out == IF r.raised THEN "RAISED" ELSE r.status
                filled == r.status = "FILLED"
            IN  exec_signals(
                    [ ex |-> r.ex,
                      trades |-> IF out = "FILLED"
                                 THEN Append(acc.trades, TradeRec(d, sig, r))
                                 ELSE acc.trades,
                      outcomes |-> Append(acc.outcomes, out),
                      cpos |-> IF ~(acc.alias /\ filled) THEN acc.cpos
                               ELSE IF r.ex.pos # None THEN r.ex.pos
                               ELSE [acc.cpos EXCEPT !.size = @ - r.filled_size],
                      alias |-> acc.alias /\ ~(filled /\ r.ex.pos = None) ],
                    Tail(sigs), slip, d)
    IN  Submitted(Head(sigs), submit_order(acc.ex, Head(sigs), slip))

\* the slot_status block of a dashboard push
SlotStatus(sl) == [ is_running |-> sl.is_running, is_paused |-> is_paused(sl) ]

\* what _push_dashboard sends for a slot
Snapshot(w, s, d, ctx) ==
    [ candle_ts |-> d.ts, price |-> d.close, cash |-> ctx.cash,
      strategy |-> get_status(w.strategy[s], ctx),
      trade_history |-> w.trades[s],
      slot_status |-> SlotStatus(w.slots[s]) ]

\* an else branch that leaves the strategy alone
paused_refresh_skipped(st, d) == st

\* the else branch of _process_bar (slot stopped or paused): the strategy has
\* _update_buffer and _get_dataframe but neither _calculate_rsi nor
\* _calculate_macd, so only _update_buffer changes it
paused_refresh(st, d) == update_buffer(st, d)

\* MultiStrategyRunner._process_bar for slot s, candle d and the cycle's
\* inputs inp = [fault, slip]: [w, raised]
\* fault "strategy": on_data raises on entry; fault "push": the dashboard
\* push raises; raised tells whether _process_bar ends by an exception
process_bar(w, s, d, inp) ==
    LET sl1 == [w.slots[s] EXCEPT !.bar_count = @ + 1]
        active == SlotActive(sl1)
        \* the dashboard push, which always runs
        Pushed(w2, cyc, pctx, pushRaises) ==
            LET w3 == [w2 EXCEPT !.cycle[s] =
                          [cyc EXCEPT !.pushed = ~pushRaises,
                                      !.raised = IF pushRaises THEN "push" ELSE @]]
            IN  [ w |-> IF pushRaises THEN w3
                        ELSE [w3 EXCEPT !.dash[s] =
                                 [ snapshot |-> Snapshot(w3, s, d, pctx),
                                   slot_status |-> SlotStatus(sl1) ]],
                  raised |-> pushRaises ]
        \* the documents are saved when the decision step returned signals
        Saved(w1, st2, sigs, cyc, pctx) ==
            Pushed(IF sigs # << >> THEN save_slot(w1, s) ELSE w1, cyc, pctx,
                   inp.fault = "push" \/ LayersRaises(st2.state, st2.params, pctx))
        Executed(ctx, dr, sigs, er) ==
            Saved([w EXCEPT !.slots[s] = sl1, !.executor[s] = er.ex,
                            !.strategy[s] = dr.st, !.trades[s] = er.trades],
                  dr.st, sigs,
                  [ fault |-> inp.fault, slip |-> IF sigs # << >> THEN inp.slip ELSE 0,
                    ran |-> active, signals |-> sigs, outcomes |-> er.outcomes,
                    path |-> dr.path, saved |-> sigs # << >>, pushed |-> TRUE,
                    raised |-> IF active /\ dr.raised THEN "strategy" ELSE "none" ],
                  Ctx(ctx.cash, er.cpos, d.close))
        Signalled(ex1, ctx, dr, sigs) ==
            Executed(ctx, dr, sigs,
                     exec_signals([ ex |-> ex1, trades |-> w.trades[s],
                                    outcomes |-> << >>,
                                    cpos |-> ex1.pos, alias |-> ex1.pos # None ],
                                  sigs, inp.slip, d))
        \* dr = [st, signals, path, raised]: what the decision step, or the
        \* refresh that replaces it, did to the strategy
        Decided(ex1, ctx, dr) ==
            Signalled(ex1, ctx, dr, IF dr.raised THEN << >> ELSE dr.signals)
        WithContext(ex1, ctx) ==
            Decided(ex1, ctx,
                    IF ~active
                    THEN [ st |-> paused_refresh(w.strategy[s], d),
                           signals |-> << >>, path |-> "none", raised |-> FALSE ]
                    ELSE IF inp.fault = "strategy"
                    THEN [ st |-> w.strategy[s],
                           signals |-> << >>, path |-> "none", raised |-> TRUE ]
                    ELSE on_data(w.strategy[s], d, ctx))
        WithMarket(ex1) == WithContext(ex1, Ctx(ex1.cash, ex1.pos, d.close))
    IN  WithMarket(update_market_data(w.executor[s], d.ts, d.close))

\* a loop that an exception leaves
remaining_after_abort(raised, rest) == IF raised THEN << >> ELSE rest

\* the except clause of on_bar: the slots still to be processed after one
\* slot's _process_bar has ended (normally or by an exception)
remaining_after(raised, rest) == rest

\* MultiStrategyRunner.on_bar: every slot in iteration order
RECURSIVE bar_loop(_, _, _, _)
bar_loop(w, order, d, inps) ==
    IF order = << >> THEN w
    ELSE LET Processed(r) ==
                 bar_loop(r.w, remaining_after(r.raised, Tail(order)), d, inps)
         IN  Processed(process_bar(w, Head(order), d, inps[Head(order)]))

\* MultiStrategyRunner.start / pause / reset
\* (with _push_status_update, which sends the slot_status block)
\* a start that begins a new trade list
runner_start_new_history(w, s) ==
    [w EXCEPT !.slots[s] = slot_start(@),
              !.trades[s] = << >>,
              !.dash[s].slot_status = SlotStatus(slot_start(w.slots[s]))]
runner_start(w, s) ==
    [w EXCEPT !.slots[s] = slot_start(@),
              !.dash[s].slot_status = SlotStatus(slot_start(w.slots[s]))]
runner_pause(w, s) ==
    [w EXCEPT !.slots[s] = slot_pause(@),
              !.dash[s].slot_status = SlotStatus(slot_pause(w.slots[s]))]
\* a reset that clears the whole trade table
runner_reset_all_trades(w, s) ==
    [w EXCEPT !.slots[s] = slot_stop(@),
              !.executor[s] = executor_reset(@),
              !.strategy[s] = initialize(@),
              !.trades = [t \in DOMAIN w.trades |-> << >>],
              !.files[s] = NoFiles]
\* MultiStrategyRunner.reset (the file removals succeed)
runner_reset(w, s) ==
    [w EXCEPT !.slots[s] = slot_stop(@),
              !.executor[s] = executor_reset(@),
              !.strategy[s] = initialize(@),
              !.trades[s] = << >>,
              !.files[s] = NoFiles]

\* ------------------------------------------------------------------------
\* Inputs
\* ------------------------------------------------------------------------
\* candle shapes the feed delivers (ticks): flat, sell-off, rally
Flat  == [ open |-> 10000, high |-> 10050, low |-> 9950, close |-> 10000 ]
Drop  == [ open |-> 10000, high |-> 10000, low |-> 9300, close |-> 9400 ]
Rally == [ open |-> 10000, high |-> 11500, low |-> 10000, close |-> 11500 ]
Slump == [ open |-> 9400, high |-> 9400, low |-> 8700, close |-> 8800 ]
CandleShapes == { Flat, Drop, Rally }
\* the shapes delivered to the runner
BarShapes == { Flat, Drop }

\* seconds between two delivered candles (1m timeframe), and the distance
\* of the next candle after a feed outage of half an hour
BarSeconds == 60
OutageSeconds == 30 * BarSeconds

Candle(ts, sh) ==
    [ ts |-> ts, open |-> sh.open, high |-> sh.high, low |-> sh.low, close |-> sh.close ]

\* per-slot inputs of one candle cycle: the fault injected and the slippage
\* the executor draws
Faults == {"none", "strategy", "push"}
CycleInputs == [ fault : Faults, slip : Slippages ]
NumFaults(inps) == Cardinality({ s \in DOMAIN inps : inps[s].fault # "none" })

\* documents a previous run of the program may have left for a slot: none;
\* an account run down to 50.00 with no position; an account holding one
\* unit.  Both accounts were saved by a run configured with an initial
\* balance of 500.00.
OldTrade == [ time |-> 0, side |-> "BUY", size |-> 1000, price |-> 10000,
              reason |-> "grid_buy" ]
PoorDoc ==
    [ state |-> [ cash |-> 5000, initial_capital |-> 50000, positions |-> << >> ],
      trades |-> Some(<< OldTrade >>) ]
HoldingDoc ==
    [ state |-> [ cash |-> 39990, initial_capital |-> 50000,
                  positions |-> << [ key |-> Symbol, symbol |-> Symbol,
                                     size |-> 1000, avg_price |-> 10000,
                                     entry_time |-> [ iso |-> 0 ] ] >> ],
      trades |-> Some(<< OldTrade >>) ]
PersistedDocs == [ A |-> { NoFiles, PoorDoc }, B |-> { NoFiles, HoldingDoc } ]

\* ------------------------------------------------------------------------
\* Specification of the runner
\* ------------------------------------------------------------------------
\* MultiStrategyRunner.add_slot for a fresh slot: executor and trade list are
\* loaded from the slot's documents when they exist
AddedExecutor(doc) ==
    IF doc.state = None THEN NewExecutor(SlotBalance)
    ELSE from_dict(NewExecutor(SlotBalance), doc.state)
AddedTrades(doc) == IF doc.trades = None THEN << >> ELSE doc.trades.v

NoDash == [ snapshot |-> None, slot_status |-> None ]

\* the state after construction and add_slot of both slots, registered in
\* one of the given orders
InitWith(orders) ==
    /\ slot_order \in orders
    /\ files \in { f \in [SlotIds -> {NoFiles, PoorDoc, HoldingDoc}] :
                       \A s \in SlotIds : f[s] \in PersistedDocs[s] }
    /\ slots = [s \in SlotIds |-> NewSlot(SlotBalance)]
    /\ executor = [s \in SlotIds |-> AddedExecutor(files[s])]
    /\ strategy = [s \in SlotIds |-> NewStrategy(RunnerOverrides)]
    /\ trades = [s \in SlotIds |-> AddedTrades(files[s])]
    /\ dash = [s \in SlotIds |-> NoDash]
    /\ clock = 0
    /\ bars = 0
    /\ ops = 0
    /\ faults = 0
    /\ inflight = None
    /\ cycle = [s \in SlotIds |-> NoCycle]
    /\ lastOp = [ op |-> "init" ]

Init == InitWith({ << "A", "B" >> })

SetWorld(w) ==
    /\ slots' = w.slots
    /\ executor' = w.executor
    /\ strategy' = w.strategy
    /\ trades' = w.trades
    /\ files' = w.files
    /\ dash' = w.dash
    /\ cycle' = w.cycle

Control(op, s, w) ==
    /\ ops < MaxOps
    /\ ops' = ops + 1
    /\ SetWorld(w)
    /\ lastOp' = [ op |-> op, slot |-> s ]
    /\ UNCHANGED << slot_order, clock, bars, faults, inflight >>

Start(s) == Control("start", s, runner_start(World, s))
Pause(s) == Control("pause", s, runner_pause(World, s))
Reset(s) == Control("reset", s, runner_reset(World, s))

\* one candle from the feed, broadcast by on_bar, with the cycle inputs inps
BarStep(sh, inps) ==
    LET d == Candle(clock + BarSeconds, sh) IN
    /\ bars' = bars + 1
    /\ SetWorld(bar_loop(World, slot_order, d, inps))
    /\ clock' = d.ts
    /\ lastOp' = [ op |-> "on_bar", candle |-> d ]
    /\ UNCHANGED << slot_order, ops, inflight >>

Bar(sh, inps) == bars < MaxBars /\ BarStep(sh, inps)

\* a candle cycle in which nothing fails
OnBar ==
    \E sh \in BarShapes, inps \in [SlotIds -> CycleInputs] :
        /\ NumFaults(inps) = 0
        /\ Bar(sh, inps)
        /\ UNCHANGED faults

Next ==
    \/ \E s \in SlotIds : Start(s)
    \/ \E s \in SlotIds : Pause(s)
    \/ \E s \in SlotIds : Reset(s)
    \/ OnBar

Spec == Init /\ [][Next]_vars

\* ------------------------------------------------------------------------
\* Specification of the runner with failing cycles: every slot is started
\* together, and a cycle may fail in the strategy or in the dashboard push
\* ------------------------------------------------------------------------
\* MultiStrategyRunner.start_all
runner_start_all(w) == [w EXCEPT !.slots = [s \in SlotIds |-> slot_start(w.slots[s])]]

StartAll ==
    /\ \E s \in SlotIds : ~SlotActive(slots[s])
    /\ SetWorld(runner_start_all(World))
    /\ lastOp' = [ op |-> "start_all" ]
    /\ UNCHANGED << slot_order, clock, bars, ops, faults, inflight >>

\* a candle cycle in which slots may fail; a "strategy" fault needs the
\* decision step to run
OnBarFaulty ==
    \E sh \in BarShapes, inps \in [SlotIds -> CycleInputs] :
        /\ \A s \in SlotIds : inps[s].fault = "strategy" => SlotActive(slots[s])
        /\ faults + NumFaults(inps) <= MaxFaults
        /\ faults' = faults + NumFaults(inps)
        /\ Bar(sh, inps)

NextFaults == StartAll \/ OnBarFaulty

InitFaults == InitWith({ << "A", "B" >>, << "B", "A" >> })

SpecFaults == InitFaults /\ [][NextFaults]_vars

\* ------------------------------------------------------------------------
\* Specification of a trading session: every slot is started together and
\* the feed delivers candles of a falling market; nothing fails
\* ------------------------------------------------------------------------
SessionShapes == { Flat, Drop, Slump }

OnBarSession ==
    \E sh \in SessionShapes, inps \in [SlotIds -> CycleInputs] :
        /\ NumFaults(inps) = 0
        /\ bars < MaxCandles
        /\ BarStep(sh, inps)
        /\ UNCHANGED faults

NextSession == StartAll \/ OnBarSession

SpecSession == Init /\ [][NextSession]_vars

\* ------------------------------------------------------------------------
\* Specification of the runner with the dashboard's thread: on_bar runs on
\* the feed's thread one group of statements at a time (the decision step
\* of a slot, each order of the signal loop, the save and the push), and
\* reset, called from the dashboard's thread, runs between any two of them.
\* No lock orders the two threads.
\* ------------------------------------------------------------------------
\* the feed's thread inside on_bar: the slots still to process (the first
\* one is the slot in hand once stage is "submit"), the candle, and the
\* locals of _process_bar: signals, the signals still to submit, the
\* context and the Position object it holds; reset_seen records that the
\* slot in hand was reset since its decision step
Flight(d, rest) ==
    [ stage |-> "begin", rest |-> rest, d |-> d,
      signals |-> << >>, sigs |-> << >>, outcomes |-> << >>, slip |-> 0,
      ctx |-> None, cpos |-> None, alias |-> FALSE,
      ran |-> FALSE, path |-> "none", raised |-> FALSE, reset_seen |-> FALSE ]

\* _process_bar up to the return of on_data (or of the refresh that
\* replaces it): [w, fl]
slot_begin(w, fl) ==
    LET s == Head(fl.rest)
        d == fl.d
        sl1 == [w.slots[s] EXCEPT !.bar_count = @ + 1]
        active == SlotActive(sl1)
        Decided(ex1, ctx, dr) ==
            [ w |-> [w EXCEPT !.slots[s] = sl1, !.executor[s] = ex1,
                              !.strategy[s] = dr.st],
              fl |-> [fl EXCEPT !.stage = "submit",
                                !.signals = IF dr.raised THEN << >> ELSE dr.signals,
                                !.sigs = IF dr.raised THEN << >> ELSE dr.signals,
                                !.ctx = ctx, !.cpos = ex1.pos,
                                !.alias = ex1.pos # None,
                                !.ran = active, !.path = dr.path,
                                !.raised = active /\ dr.raised] ]
        WithContext(ex1, ctx) ==
            Decided(ex1, ctx,
                    IF ~active
                    THEN [ st |-> paused_refresh(w.strategy[s], d),
                           signals |-> << >>, path |-> "none", raised |-> FALSE ]
                    ELSE on_data(w.strategy[s], d, ctx))
        WithMarket(ex1) == WithContext(ex1, Ctx(ex1.cash, ex1.pos, d.close))
    IN  WithMarket(update_market_data(w.executor[s], d.ts, d.close))

\* one turn of the signal loop of _process_bar: the next order is submitted
\* to the executor as it is now and its trade appended to the list that
\* _trades holds now: [w, fl]
slot_submit(w, fl, slip) ==
    LET s == Head(fl.rest)
        Submitted(acc) ==
            [ w |-> [w EXCEPT !.executor[s] = acc.ex, !.trades[s] = acc.trades],
              fl |-> [fl EXCEPT !.sigs = Tail(@), !.outcomes = acc.outcomes,
                                !.cpos = acc.cpos, !.alias = acc.alias,
                                !.slip = slip] ]
    IN  Submitted(exec_signals([ ex |-> w.executor[s], trades |-> w.trades[s],
                                 outcomes |-> fl.outcomes,
                                 cpos |-> fl.cpos, alias |-> fl.alias ],
                               << Head(fl.sigs) >>, slip, fl.d))

\* the end of _process_bar: the save when there were signals, then the
\* dashboard push; on_bar goes on with the next slot: [w, fl]
slot_finish(w, fl) ==
    LET s == Head(fl.rest)
        d == fl.d
        saved == fl.signals # << >>
        pctx == Ctx(fl.ctx.cash, fl.cpos, d.close)
        Pushed(w2, pushRaises) ==
            LET w3 == [w2 EXCEPT !.cycle[s] =
                          [ fault |-> "none", slip |-> fl.slip, ran |-> fl.ran,
                            signals |-> fl.signals, outcomes |-> fl.outcomes,
                            path |-> fl.path, saved |-> saved,
                            pushed |-> ~pushRaises,
                            raised |-> IF pushRaises THEN "push"
                                       ELSE IF fl.raised THEN "strategy"
                                       ELSE "none" ]]
            IN  IF pushRaises THEN w3
                ELSE [w3 EXCEPT !.dash[s] =
                         [ snapshot |-> Snapshot(w3, s, d, pctx),
                           slot_status |-> SlotStatus(w3.slots[s]) ]]
        Saved(w1) ==
            Pushed(w1, LayersRaises(w1.strategy[s].state, w1.strategy[s].params, pctx))
    IN  [ w |-> Saved(IF saved THEN save_slot(w, s) ELSE w),
          fl |-> IF Tail(fl.rest) = << >> THEN None ELSE Flight(d, Tail(fl.rest)) ]

\* on_bar is entered with the next candle
NewCandle ==
    /\ inflight = None
    /\ bars < MaxBars
    /\ \E sh \in BarShapes :
         \E d \in { Candle(clock + BarSeconds, sh) } :
             /\ inflight' = Flight(d, slot_order)
             /\ clock' = d.ts
             /\ lastOp' = [ op |-> "on_bar", candle |-> d ]
    /\ bars' = bars + 1
    /\ UNCHANGED << slots, executor, strategy, trades, files, dash, cycle,
                    slot_order, ops, faults >>

SlotBegin ==
    /\ inflight # None
    /\ inflight.stage = "begin"
    /\ \E r \in { slot_begin(World, inflight) } :
         /\ SetWorld(r.w)
         /\ inflight' = r.fl
    /\ lastOp' = [ op |-> "slot_begin", slot |-> Head(inflight.rest) ]
    /\ UNCHANGED << slot_order, clock, bars, ops, faults >>

SlotSubmit ==
    /\ inflight # None
    /\ inflight.stage = "submit"
    /\ inflight.sigs # << >>
    /\ \E slip \in Slippages :
         \E r \in { slot_submit(World, inflight, slip) } :
             /\ SetWorld(r.w)
             /\ inflight' = r.fl
    /\ lastOp' = [ op |-> "slot_submit", slot |-> Head(inflight.rest) ]
    /\ UNCHANGED << slot_order, clock, bars, ops, faults >>

SlotFinish ==
    /\ inflight # None
    /\ inflight.stage = "submit"
    /\ inflight.sigs = << >>
    /\ \E r \in { slot_finish(World, inflight) } :
         /\ SetWorld(r.w)
         /\ inflight' = r.fl
    /\ lastOp' = [ op |-> "slot_done", slot |-> Head(inflight.rest),
                   reset_seen |-> inflight.reset_seen ]
    /\ UNCHANGED << slot_order, clock, bars, ops, faults >>

\* reset(s) on the dashboard's thread, wherever the feed's thread stands.
\* PaperExecutor.reset clears _positions, so the Position object the
\* context of a cycle in flight holds is no longer the executor's.
ResetAnytime(s) ==
    /\ ops < MaxOps
    /\ ops' = ops + 1
    /\ SetWorld(runner_reset(World, s))
    /\ inflight' = IF inflight # None /\ inflight.stage = "submit"
                      /\ Head(inflight.rest) = s
                   THEN [inflight EXCEPT !.reset_seen = TRUE, !.alias = FALSE]
                   ELSE inflight
    /\ lastOp' = [ op |-> "reset", slot |-> s ]
    /\ UNCHANGED << slot_order, clock, bars, faults >>

NextThreads ==
    \/ StartAll
    \/ NewCandle
    \/ SlotBegin
    \/ SlotSubmit
    \/ SlotFinish
    \/ \E s \in SlotIds : ResetAnytime(s)

\* a fresh deployment: no documents of an earlier run
InitThreads == Init /\ files = [s \in SlotIds |-> NoFiles]

SpecThreads == InitThreads /\ [][NextThreads]_vars

\* ------------------------------------------------------------------------
\* Specification of one strategy instance driven directly: on_data is called
\* with every candle and with a context built from the account the executor
\* collaborator reports for that candle
\* ------------------------------------------------------------------------
Driven == "A"

\* what the feed delivers next: any shape one bar later, or a flat candle
\* after an outage
FeedInputs ==
    [ shape : CandleShapes, dt : {BarSeconds} ] \cup [ shape : {Flat}, dt : {OutageSeconds} ]

\* accounts the collaborator reports: flat, or holding five units bought at
\* 100.00 or at 115.00
Accounts ==
    { [ cash |-> SlotBalance, pos |-> None ],
      [ cash |-> 50000, pos |-> [ size |-> 5000, avg_price |-> 10000 ] ],
      [ cash |-> 42500, pos |-> [ size |-> 5000, avg_price |-> 11500 ] ] }

InitDriven(ov) ==
    /\ slot_order = << "A", "B" >>
    /\ files = [s \in SlotIds |-> NoFiles]
    /\ slots = [s \in SlotIds |-> NewSlot(SlotBalance)]
    /\ executor = [s \in SlotIds |-> NewExecutor(SlotBalance)]
    /\ strategy = [s \in SlotIds |-> NewStrategy(ov)]
    /\ trades = [s \in SlotIds |-> << >>]
    /\ dash = [s \in SlotIds |-> NoDash]
    /\ clock = 0
    /\ bars = 0
    /\ ops = 0
    /\ faults = 0
    /\ inflight = None
    /\ cycle = [s \in SlotIds |-> NoCycle]
    /\ lastOp = [ op |-> "init" ]

InitStrategy == InitDriven(DirectOverrides)

\* one candle, one on_data call
Decide ==
    /\ bars < MaxSteps
    /\ \E f \in FeedInputs, a \in Accounts :
         \E d \in { Candle(clock + f.dt, f.shape) } :
         \E ctx \in { Ctx(a.cash, a.pos, d.close) } :
         \E r \in { on_data(strategy[Driven], d, ctx) } :
             /\ strategy' = [strategy EXCEPT ![Driven] = r.st]
             /\ cycle' = [cycle EXCEPT ![Driven] =
                            [NoCycle EXCEPT !.ran = TRUE, !.signals = r.signals,
                                            !.path = r.path,
                                            !.raised = IF r.raised THEN "strategy"
                                                       ELSE "none"]]
             /\ clock' = d.ts
             /\ lastOp' = [ op |-> "on_data", candle |-> d, ctx |-> ctx ]
    /\ bars' = bars + 1
    /\ UNCHANGED << slots, executor, trades, files, dash, slot_order, ops, faults,
                    inflight >>

NextStrategy == Decide

SpecStrategy == InitStrategy /\ [][NextStrategy]_vars

\* ------------------------------------------------------------------------
\* Specification of one strategy instance whose parameter file the operator
\* rewrites while it runs: on_data starts with _maybe_reload_params
\* ------------------------------------------------------------------------
\* parameter files: one cut off in the middle, one holding a list, one that
\* changes an indicator period and the grid spacing, one that changes grid,
\* cycle and symbol settings only (and has a key the strategy does not know)
ConfigFiles ==
    { [ parses |-> FALSE, is_dict |-> TRUE, mtime |-> 1,
        data |-> [ rsi_period |-> 1, grid_levels |-> 4, symbol |-> "ETH-USDT" ] ],
      [ parses |-> TRUE, is_dict |-> FALSE, mtime |-> 2,
        data |-> [ rsi_period |-> 1 ] ],
      [ parses |-> TRUE, is_dict |-> TRUE, mtime |-> 3,
        data |-> [ macd_signal |-> 2, rsi_period |-> 2, grid_spacing_max |-> 50 ] ],
      [ parses |-> TRUE, is_dict |-> TRUE, mtime |-> 4,
        data |-> [ grid_spacing_max |-> 50, rsi_period |-> 2,
                   cycle_reset_period |-> 4,
                   symbol |-> "ETH-USDT", note |-> 0 ] ] }

\* no reload due
NoEvent == [ flag |-> FALSE, due |-> FALSE, file |-> None ]

\* what step 0 finds: nothing; the .reload flag over any file or over no
\* file; the poll period reached over any file
ConfigEvents ==
    { NoEvent } \cup [ flag : {TRUE}, due : {FALSE}, file : ConfigFiles \cup {None} ]
                \cup [ flag : {FALSE}, due : {TRUE}, file : ConfigFiles ]

InitReload == InitDriven(RunnerOverrides)

\* accounts the collaborator reports: flat, or holding five units bought at
\* 100.00
ReloadAccounts == { a \in Accounts : a.pos = None \/ a.pos.avg_price = 10000 }

\* one candle, one on_data call, with what step 0 finds
DecideReloading ==
    /\ bars < MaxTicks
    /\ \E sh \in CandleShapes, a \in ReloadAccounts, env \in ConfigEvents :
         /\ env # NoEvent => ops < MaxReloads
         /\ ops' = IF env = NoEvent THEN ops ELSE ops + 1
         /\ \E d \in { Candle(clock + BarSeconds, sh) } :
            \E ctx \in { Ctx(a.cash, a.pos, d.close) } :
            \E r \in { on_data(maybe_reload_params(strategy[Driven], env), d, ctx) } :
                /\ strategy' = [strategy EXCEPT ![Driven] = r.st]
                /\ cycle' = [cycle EXCEPT ![Driven] =
                               [NoCycle EXCEPT !.ran = TRUE, !.signals = r.signals,
                                               !.path = r.path,
                                               !.raised = IF r.raised THEN "strategy"
                                                          ELSE "none"]]
                /\ clock' = d.ts
                /\ lastOp' = [ op |-> "on_data", candle |-> d, ctx |-> ctx,
                               env |-> env ]
    /\ bars' = bars + 1
    /\ UNCHANGED << slots, executor, trades, files, dash, slot_order, faults,
                    inflight >>

SpecReload == InitReload /\ [][DecideReloading]_vars

\* ------------------------------------------------------------------------
\* Specification of one strategy instance fed by OKXDataFeed.stream: every
\* poll yields the newest candle of the exchange, which is the candle of the
\* last poll again (same timestamp, the bucket still open, its prices
\* possibly moved) or the candle of the next bucket
\* ------------------------------------------------------------------------
PollInputs == [ shape : CandleShapes, dt : { 0, BarSeconds } ]

\* one poll, one on_data call
DecidePolled ==
    /\ bars < MaxPolls
    /\ \E f \in PollInputs, a \in ReloadAccounts :
         /\ bars = 0 => f.dt = BarSeconds
         /\ \E d \in { Candle(clock + f.dt, f.shape) } :
            \E ctx \in { Ctx(a.cash, a.pos, d.close) } :
            \E r \in { on_data(strategy[Driven], d, ctx) } :
                /\ strategy' = [strategy EXCEPT ![Driven] = r.st]
                /\ cycle' = [cycle EXCEPT ![Driven] =
                               [NoCycle EXCEPT !.ran = TRUE, !.signals = r.signals,
                                               !.path = r.path,
                                               !.raised = IF r.raised THEN "strategy"
                                                          ELSE "none"]]
                /\ clock' = d.ts
                /\ lastOp' = [ op |-> "on_data", candle |-> d, ctx |-> ctx ]
    /\ bars' = bars + 1
    /\ UNCHANGED << slots, executor, trades, files, dash, slot_order, ops, faults,
                    inflight >>

SpecStream == InitReload /\ [][DecidePolled]_vars

\* ------------------------------------------------------------------------
\* Specification of one strategy instance with the default parameters in a
\* market that does not move: every candle is the first candle again
\* ------------------------------------------------------------------------
\* candles at 1.00, 100.00 or 500.00, without wicks or with wicks of 0.50
CalmShapes ==
    { [ open |-> c, high |-> c + w, low |-> c - w, close |-> c ] :
          c \in { 100, 10000, 50000 }, w \in { 0, 50 } }

InitCalm == InitDriven([k \in {} |-> 0])

\* one candle, one on_data call
DecideCalm ==
    /\ bars < MaxCalm
    /\ \E sh \in CalmShapes, a \in ReloadAccounts :
         /\ bars > 0 => LastCandleOf(lastOp.candle) = LastCandleOf(Candle(0, sh))
         /\ \E d \in { Candle(clock + BarSeconds, sh) } :
            \E ctx \in { Ctx(a.cash, a.pos, d.close) } :
            \E r \in { on_data(strategy[Driven], d, ctx) } :
                /\ strategy' = [strategy EXCEPT ![Driven] = r.st]
                /\ cycle' = [cycle EXCEPT ![Driven] =
                               [NoCycle EXCEPT !.ran = TRUE, !.signals = r.signals,
                                               !.path = r.path,
                                               !.raised = IF r.raised THEN "strategy"
                                                          ELSE "none"]]
                /\ clock' = d.ts
                /\ lastOp' = [ op |-> "on_data", candle |-> d, ctx |-> ctx ]
    /\ bars' = bars + 1
    /\ UNCHANGED << slots, executor, trades, files, dash, slot_order, ops, faults,
                    inflight >>

SpecCalm == InitCalm /\ [][DecideCalm]_vars

\* ------------------------------------------------------------------------
\* Specification of one strategy instance in a trending market: every candle
\* opens at the close of the one before and closes 3.00 higher, unchanged or
\* 3.00 lower; the account is flat, with 1000.00 or with 50.00 of cash, or
\* holds one unit bought at 100.00
\* ------------------------------------------------------------------------
TrendMoves == { 0 - 300, 0, 300 }

TrendAccounts ==
    { [ cash |-> SlotBalance, pos |-> None ],
      [ cash |-> 5000, pos |-> None ],
      [ cash |-> 90000, pos |-> [ size |-> 1000, avg_price |-> 10000 ] ] }

\* the candle that moves by mv from the close c
MovedCandle(ts, c, mv) ==
    [ ts |-> ts, open |-> c, high |-> Max2(c, c + mv), low |-> Min2(c, c + mv),
      close |-> c + mv ]

\* one candle, one on_data call
DecideTrending ==
    /\ bars < MaxTrend
    /\ \E mv \in TrendMoves, a \in TrendAccounts :
         \E d \in { MovedCandle(clock + BarSeconds,
                                 IF bars = 0 THEN Flat.close ELSE lastOp.candle.close,
                                 mv) } :
         \E ctx \in { Ctx(a.cash, a.pos, d.close) } :
         \E r \in { on_data(strategy[Driven], d, ctx) } :
             /\ strategy' = [strategy EXCEPT ![Driven] = r.st]
             /\ cycle' = [cycle EXCEPT ![Driven] =
                            [NoCycle EXCEPT !.ran = TRUE, !.signals = r.signals,
                                            !.path = r.path,
                                            !.raised = IF r.raised THEN "strategy"
                                                       ELSE "none"]]
             /\ clock' = d.ts
             /\ lastOp' = [ op |-> "on_data", candle |-> d, ctx |-> ctx,
                            before |-> strategy[Driven].state ]
    /\ bars' = bars + 1
    /\ UNCHANGED << slots, executor, trades, files, dash, slot_order, ops, faults,
                    inflight >>

SpecTrend == InitStrategy /\ [][DecideTrending]_vars

\* ------------------------------------------------------------------------
\* Specification of one PaperExecutor given orders directly: before each
\* order the market data is updated to a price of 88.00 or 100.00; the order
\* is a BUY by quote notional (0, 100.00 or 500.00) or a SELL by base size
\* (0, 0.5 or 1 unit)
\* ------------------------------------------------------------------------
OrderInputs ==
    { BuySig(n, "order") : n \in { 0, 10000, 50000 } }
        \cup { SellSig(q, "order") : q \in { 0, 500, 1000 } }

OrderPrices == { Slump.close, Flat.close }

\* update_market_data, then submit_order
SubmitOrder ==
    /\ ops < MaxOrders
    /\ \E sig \in OrderInputs, slip \in Slippages, px \in OrderPrices :
         \E r \in { submit_order(update_market_data(executor[Driven],
                                                     clock + BarSeconds, px),
                                  sig, slip) } :
             /\ executor' = [executor EXCEPT ![Driven] = r.ex]
             /\ lastOp' = [ op |-> "submit_order", sig |-> sig, status |-> r.status,
                            raised |-> r.raised ]
    /\ clock' = clock + BarSeconds
    /\ ops' = ops + 1
    /\ UNCHANGED << slots, strategy, trades, files, dash, slot_order, bars, faults,
                    inflight, cycle >>

SpecOrders == InitStrategy /\ [][SubmitOrder]_vars

\* ------------------------------------------------------------------------
\* Specification of the grid logic on its own: _grid_orders is called with a
\* grid of five levels from 90.00 to 102.00, a last-seen candle, a candle, a
\* matrix action, an RSI and a context, each drawn from a small set
\* ------------------------------------------------------------------------
GridLevels == << 9000, 9300, 9600, 9900, 10200 >>

\* last-seen candles: inside one grid cell, or spanning a level
GridLastCandles ==
    { [ open |-> 9750, high |-> 9800, low |-> 9700, close |-> 9750 ],
      [ open |-> 9750, high |-> 9950, low |-> 9550, close |-> 9750 ] }

\* candles that cross 96.00 downward and 99.00 upward, only one of them, or
\* neither, closing low or high
GridCandles ==
    { [ ts |-> BarSeconds, open |-> 9750, high |-> h, low |-> l, close |-> c ] :
          h \in { 9800, 10000 }, l \in { 9700, 9500 }, c \in { 9700, 9800 } }

GridActions == { "heavy_buy", "buy", "light_buy", "hold", "reduce", "sell", "stop" }

GridRsis == { 20 * RSIScale, 50 * RSIScale, 80 * RSIScale }

\* flat, or one unit bought at 95.00, 99.00 or 105.00
GridAccounts ==
    { [ cash |-> SlotBalance, pos |-> None ] }
        \cup { [ cash |-> 90000, pos |-> [ size |-> 1000, avg_price |-> a ] ] :
                   a \in { 9500, 9900, 10500 } }

\* the strategy state _grid_orders reads
GridInputState(lc, rsi) ==
    [NewStrategyState EXCEPT !.grid_prices = GridLevels,
                             !.grid_lower = Some(GridLevels[1]),
                             !.grid_upper = Some(GridLevels[Len(GridLevels)]),
                             !.actual_levels = Len(GridLevels),
                             !.last_candle = lc,
                             !.current_rsi = rsi]

\* one call of _grid_orders
ApplyGridOrders ==
    /\ ops < MaxGridCalls
    /\ \E lc \in GridLastCandles, d \in GridCandles, action \in GridActions,
          rsi \in GridRsis, a \in GridAccounts :
         \E s \in { GridInputState(lc, rsi) } :
         \E ctx \in { Ctx(a.cash, a.pos, d.close) } :
             /\ cycle' = [cycle EXCEPT ![Driven] =
                            [NoCycle EXCEPT !.ran = TRUE,
                                            !.signals = grid_orders(s, strategy[Driven].params,
                                                                    d, ctx, action)]]
             /\ lastOp' = [ op |-> "grid_orders", s |-> s, candle |-> d, ctx |-> ctx,
                            action |-> action ]
    /\ ops' = ops + 1
    /\ UNCHANGED << slots, executor, strategy, trades, files, dash, slot_order, bars,
                    clock, faults, inflight >>

SpecGrid == InitStrategy /\ [][ApplyGridOrders]_vars

\* ------------------------------------------------------------------------
\* Properties of the runner (Spec, SpecFaults)
\* ------------------------------------------------------------------------
\* the slots other than s
Siblings(s) == SlotIds \ {s}

\* everything the runner holds for slot s
SlotView(w, s) ==
    [ slot |-> w.slots[s], executor |-> w.executor[s], strategy |-> w.strategy[s],
      trades |-> w.trades[s], files |-> w.files[s], dash |-> w.dash[s],
      cycle |-> w.cycle[s] ]

\* C1: while a candle is processed, the decision step runs and orders are
\* submitted for a slot only if the slot is running and not paused; a slot
\* that is stopped or paused has no signal and no order in that cycle, and
\* its cash, position, order count and trade log are the same after it.
C1_InactiveSlotDoesNotTrade ==
    [][ bars' = bars + 1 =>
          \A s \in SlotIds :
             /\ (cycle'[s].ran \/ cycle'[s].signals # << >> \/ cycle'[s].outcomes # << >>)
                   => SlotState(slots[s]) = "running"
             /\ SlotState(slots[s]) # "running" =>
                   /\ ~cycle'[s].ran
                   /\ cycle'[s].signals = << >> /\ cycle'[s].outcomes = << >>
                   /\ executor'[s].cash = executor[s].cash
                   /\ executor'[s].pos = executor[s].pos
                   /\ executor'[s].n_orders = executor[s].n_orders
                   /\ trades'[s] = trades[s]
                   /\ files'[s] = files[s] ]_vars

\* a paused slot holding a position has just seen the candle on which its
\* running sibling submitted an order
C1_Witness ==
    /\ lastOp.op = "on_bar"
    /\ \E s \in SlotIds, t \in SlotIds :
          /\ SlotState(slots[s]) \in {"paused", "stopped"}
          /\ executor[s].current_time = Some(clock)
          /\ SlotState(slots[t]) = "running"
          /\ cycle[t].outcomes # << >>

\* C2: a candle cycle that raises for one slot is not propagated by on_bar:
\* every registered slot processes that candle (its bar counter advances and
\* its executor sees the candle), every slot whose own push did not fail
\* has its snapshot of that candle pushed, and so again on the next candle.
C2_FaultIsolation ==
    [][ bars' = bars + 1 =>
          \A s \in SlotIds :
             /\ slots'[s].bar_count = slots[s].bar_count + 1
             /\ executor'[s].current_time = Some(clock')
             /\ executor'[s].current_price = lastOp'.candle.close
             /\ cycle'[s].raised # "push" =>
                   /\ dash'[s].snapshot # None
                   /\ dash'[s].snapshot.candle_ts = clock' ]_vars

\* the first slot of the iteration order failed in its push, the slot after
\* it has processed and pushed the same candle; both had processed the
\* candle before
C2_Witness ==
    /\ lastOp.op = "on_bar"
    /\ bars >= 2
    /\ cycle[slot_order[1]].raised = "push"
    /\ slots[slot_order[1]].bar_count = bars
    /\ slots[slot_order[2]].bar_count = bars
    /\ cycle[slot_order[2]].pushed
    /\ dash[slot_order[2]].snapshot.candle_ts = clock

\* C3: after reset(slot) the slot's cash is its configured initial balance,
\* it holds no position, its trade log is empty, the strategy's state,
\* indicator engine and risk state are the defaults, its persisted
\* documents are gone and the slot is stopped.
C3_ResetRestoresConfiguredBalance ==
    lastOp.op = "reset" =>
        LET s == lastOp.slot IN
        /\ executor[s].cash = slots[s].initial_balance
        /\ executor[s].pos = None
        /\ trades[s] = << >>
        /\ strategy[s].state = NewStrategyState
        /\ strategy[s].ind = NewIndicators(strategy[s].params)
        /\ strategy[s].peaks = None
        /\ files[s] = NoFiles
        /\ SlotState(slots[s]) = "stopped"

\* C4: start, pause and reset of one slot leave every other slot as it was:
\* flags and bar counter, account, strategy and risk state, trade log and
\* persisted documents.
C4_ControlFrame ==
    [][ ops' = ops + 1 =>
          \A t \in Siblings(lastOp'.slot) :
             /\ slots'[t] = slots[t]
             /\ executor'[t] = executor[t]
             /\ strategy'[t] = strategy[t]
             /\ trades'[t] = trades[t]
             /\ files'[t] = files[t] ]_vars

\* a slot has been reset while its sibling holds a trade log and persisted
\* documents
C4_Witness ==
    /\ lastOp.op = "reset"
    /\ \E t \in Siblings(lastOp.slot) : trades[t] # << >> /\ files[t] # NoFiles

\* C5: what a slot has after a candle (signals, order outcomes, account,
\* trade log, strategy state, documents, snapshot) is what processing that
\* candle gives for the slot alone, with every sibling replaced by a freshly
\* registered idle slot: it depends neither on what the siblings hold, nor
\* on their orders being rejected or filled or their cycle raising, nor on
\* the slot's place in the iteration order.
Idle(w, b) ==
    [ slots |-> [s \in SlotIds |-> IF s = b THEN w.slots[s] ELSE NewSlot(SlotBalance)],
      executor |-> [s \in SlotIds |-> IF s = b THEN w.executor[s]
                                      ELSE NewExecutor(SlotBalance)],
      strategy |-> [s \in SlotIds |-> IF s = b THEN w.strategy[s]
                                      ELSE NewStrategy(RunnerOverrides)],
      trades |-> [s \in SlotIds |-> IF s = b THEN w.trades[s] ELSE << >>],
      files |-> [s \in SlotIds |-> IF s = b THEN w.files[s] ELSE NoFiles],
      dash |-> [s \in SlotIds |-> IF s = b THEN w.dash[s] ELSE NoDash],
      cycle |-> [s \in SlotIds |-> IF s = b THEN w.cycle[s] ELSE NoCycle] ]

C6_NeverStoppedAndPaused ==
    \A s \in SlotIds :
        SlotStatus(slots[s]) \in { [ is_running |-> FALSE, is_paused |-> FALSE ],
                                   [ is_running |-> TRUE, is_paused |-> FALSE ],
                                   [ is_running |-> TRUE, is_paused |-> TRUE ] }

\* C6, the transitions: a freshly registered slot is stopped and not paused.
\* Read with is_running first, a slot is in exactly one of stopped, running and
\* paused, and changes state only by stopped -> running (start), running ->
\* paused (pause), paused -> running (start) and any state -> stopped
\* (reset).  start always ends running and not paused, reset always ends
\* stopped; pause always sets the paused flag, so that a stopped slot that is
\* paused, or a paused slot that is reset, reports stopped and paused at
\* once and stays stopped.  A candle changes no flag.
C6_SlotStateMachine ==
    /\ \A s \in SlotIds : SlotState(slots[s]) = "stopped" /\ ~is_paused(slots[s])
    /\ [][ \A s \in SlotIds :
             LET a == SlotState(slots[s])
                 b == SlotState(slots'[s])
                 op == IF ops' = ops + 1 /\ lastOp'.slot = s THEN lastOp'.op ELSE "none"
             IN  /\ a # b =>
                       \/ a = "stopped" /\ b = "running" /\ op = "start"
                       \/ a = "running" /\ b = "paused" /\ op = "pause"
                       \/ a = "paused" /\ b = "running" /\ op = "start"
                       \/ b = "stopped" /\ op = "reset"
                 /\ op = "start" => b = "running" /\ ~is_paused(slots'[s])
                 /\ op = "reset" => b = "stopped"
                 /\ op = "pause" =>
                       /\ is_paused(slots'[s])
                       /\ b = IF a = "stopped" THEN "stopped" ELSE "paused"
                 /\ op = "none" => SlotStatus(slots'[s]) = SlotStatus(slots[s]) ]_vars

\* pause has just been applied to a stopped slot, which now reports stopped
\* and paused
C6_Witness ==
    /\ lastOp.op = "pause"
    /\ ~slots[lastOp.slot].is_running
    /\ is_paused(slots[lastOp.slot])

\* the grid snapshot a decision cycle would take on candle d for strategy st
\* (whose buffers already hold d)
GridSnapshot(st, d) ==
    LET g == RefreshGrid(st, d).s
    IN  [ upper |-> g.grid_upper, lower |-> g.grid_lower, levels |-> g.grid_prices ]

\* the grid snapshot strategy st holds
HeldSnapshot(st) ==
    [ upper |-> st.state.grid_upper, lower |-> st.state.grid_lower,
      levels |-> st.state.grid_prices ]

PriceMove(buf, pct) ==
    /\ Len(buf) >= 5
    /\ buf[Len(buf) - 4] > 0
    /\ Abs(buf[Len(buf)] - buf[Len(buf) - 4]) * BP >= pct * buf[Len(buf) - 4]

\* some signal of the list comes from the grid
HasGridSignal(sigs) ==
    \E i \in 1..Len(sigs) : sigs[i].reason \in {"grid_buy", "grid_sell"}

\* C8: as long as the indicator sample count is below
\* max(rsi_period, macd_slow + macd_signal), on_data returns no signal
\* whatever the candle and the account, and still appends the candle to the
\* buffers, updates the indicator state and records the candle as last
\* seen; warmup_done is never true below that count.
C8_WarmupGate ==
    [][ bars' = bars + 1 =>
          LET st == strategy[Driven]
              st2 == strategy'[Driven]
              p == st2.params
              d == lastOp'.candle
              need == Max2(p.rsi_period, p.macd_slow + p.macd_signal)
          IN  /\ warmup_done(st2.ind, p) => st2.ind.count >= need
              /\ st2.ind.count < need =>
                    /\ cycle'[Driven].signals = << >>
                    /\ cycle'[Driven].path = "warmup"
                    /\ cycle'[Driven].raised = "none"
                    /\ st2.close_buf = Append(st.close_buf, d.close)
                    /\ st2.high_buf = Append(st.high_buf, d.high)
                    /\ st2.low_buf = Append(st.low_buf, d.low)
                    /\ st2.data_buffer = Append(st.data_buffer, d)
                    /\ st2.ind.count = st.ind.count + 1
                    /\ st2.ind.prev_close = d.close
                    /\ st2.state.last_candle = LastCandleOf(d)
                    /\ HeldSnapshot(st2) = HeldSnapshot(NewStrategy(DirectOverrides)) ]_vars

\* one candle before the gate opens, a sell-off candle arrives while the
\* account holds a position bought 22 percent higher, and nothing is emitted
C8_Witness ==
    /\ lastOp.op = "on_data"
    /\ strategy[Driven].ind.count = WarmupBars(strategy[Driven].params) - 1
    /\ strategy[Driven].ind.count >= strategy[Driven].params.rsi_period
    /\ lastOp.candle.close = Drop.close
    /\ lastOp.ctx.pos # None
    /\ lastOp.ctx.pos.avg_price = 11500
    /\ cycle[Driven].signals = << >>

\* C9: a decision cycle in which the close has moved by at least
\* black_swan_pct over the last 5 bars takes the black-swan return, and a
\* cycle that takes it returns exactly one SELL of the whole open position
\* when the account holds one, nothing otherwise: no stop-loss, death-cross,
\* cycle-reset or grid signal comes with it.
C9_BlackSwanLiquidatesOnly ==
    [][ bars' = bars + 1 =>
          LET st2 == strategy'[Driven]
              p == st2.params
              ctx == lastOp'.ctx
              c == cycle'[Driven]
          IN  /\ (st2.ind.count >= WarmupBars(p) /\ PriceMove(st2.close_buf, p.black_swan_pct))
                    => c.path = "black_swan"
              /\ c.path = "black_swan" =>
                    /\ c.raised = "none"
                    /\ c.signals =
                         IF ctx.pos # None /\ ctx.pos.size > 0
                         THEN << [ side |-> "SELL", size |-> ctx.pos.size,
                                   size_in_quote |-> FALSE, reason |-> "black_swan" ] >>
                         ELSE << >> ]_vars

\* the check has triggered on a candle on which the stop loss of the open
\* position is hit as well, and the cycle returned the one liquidation
C9_Witness ==
    /\ lastOp.op = "on_data"
    /\ cycle[Driven].path = "black_swan"
    /\ PriceMove(strategy[Driven].close_buf, strategy[Driven].params.black_swan_pct)
    /\ Len(cycle[Driven].signals) = 1
    /\ check_stop_loss(strategy[Driven].params, lastOp.candle, lastOp.ctx,
                       strategy[Driven].state, None).sigs # << >>

\* C10: a trigger at candle time t sets the pause deadline to t + 30
\* minutes.  A candle before the deadline takes the black-swan return, emits
\* no grid signal whatever the price does, and leaves the deadline where it
\* is; a candle at or after the deadline runs the normal cycle again unless
\* the close has again moved by black_swan_pct over the last 5 bars, which
\* sets a new deadline.
C10_PauseDeadline ==
    [][ bars' = bars + 1 =>
          LET st == strategy[Driven]
              st2 == strategy'[Driven]
              p == st2.params
              d == lastOp'.candle
              c == cycle'[Driven]
              until == st.state.black_swan_pause_until
              until2 == st2.state.black_swan_pause_until
              warm == st2.ind.count >= WarmupBars(p)
              move == PriceMove(st2.close_buf, p.black_swan_pct)
          IN  /\ d.ts < until =>
                    /\ c.path = "black_swan"
                    /\ ~HasGridSignal(c.signals)
                    /\ until2 = until
              /\ (d.ts >= until /\ warm /\ move) =>
                    /\ c.path = "black_swan"
                    /\ ~HasGridSignal(c.signals)
                    /\ until2 = d.ts + 30 * 60
              /\ (d.ts >= until /\ warm /\ ~move) =>
                    /\ c.path = "normal"
                    /\ until2 = until
              /\ ~warm => until2 = until ]_vars

\* a pause has run out: the candle at the deadline ran the normal cycle and
\* the grid emitted a signal
C10_Witness ==
    /\ lastOp.op = "on_data"
    /\ strategy[Driven].state.black_swan_pause_until > 0
    /\ clock >= strategy[Driven].state.black_swan_pause_until
    /\ cycle[Driven].path = "normal"
    /\ HasGridSignal(cycle[Driven].signals)

\* the outcomes of orders the executor filled: submit_order raises only
\* after it has booked the fill
FilledOutcomes == { "FILLED", "RAISED" }

\* C16: every candle cycle and every control operation other than
\* reset(s) leaves the entries recorded in the trade list of slot s as they
\* are and in their order; it can only add entries at the end.
C16_TradesAppendOnly ==
    [][ \A s \in SlotIds :
          (lastOp'.op # "reset" \/ lastOp'.slot # s)
            => /\ Len(trades'[s]) >= Len(trades[s])
               /\ SubSeq(trades'[s], 1, Len(trades[s])) = trades[s] ]_vars

\* a candle cycle that filled an order of a slot whose trade list holds
\* entries
C16_Witness ==
    \E s \in SlotIds :
        /\ lastOp.op = "on_bar"
        /\ \E i \in 1..Len(cycle[s].outcomes) : cycle[s].outcomes[i] \in FilledOutcomes
        /\ trades[s] # << >>

\* C17: after every decision cycle past warm-up, whatever the trend class
\* and wherever the price stands against the pivot range, the grid has at
\* least 3 and at most the configured maximum number of levels, its levels
\* are strictly increasing, and its upper bound is above its lower bound.
C17_GridWellFormed ==
    (lastOp.op = "on_data" /\ cycle[Driven].path # "warmup")
        => \A s \in { strategy[Driven].state } :
               /\ s.actual_levels >= 3
               /\ s.actual_levels <= MaxLevels(strategy[Driven].params)
               /\ Len(s.grid_prices) = s.actual_levels
               /\ \A i \in 1..(Len(s.grid_prices) - 1) :
                      s.grid_prices[i] < s.grid_prices[i + 1]
               /\ s.grid_prices[Len(s.grid_prices)] > s.grid_prices[1]
               /\ (s.grid_upper # None /\ s.grid_lower # None)
                      => s.grid_upper.v > s.grid_lower.v

\* a cycle past warm-up, after a reload narrowed the spacing, in a trend,
\* with pivots on both sides, whose level count is above grid_levels
C17_Witness ==
    /\ lastOp.op = "on_data"
    /\ cycle[Driven].path # "warmup"
    /\ strategy[Driven].state.trend_strength # NEUTRAL
    /\ strategy[Driven].state.pivots.pivots_high # << >>
    /\ strategy[Driven].state.pivots.pivots_low # << >>
    /\ strategy[Driven].params.grid_spacing_max
           < InitParams(RunnerOverrides).grid_spacing_max
    /\ strategy[Driven].state.actual_levels > strategy[Driven].params.grid_levels
    /\ strategy[Driven].state.grid_upper.v > strategy[Driven].state.grid_lower.v

\* C18: after every IncrementalIndicators.update (every on_data call makes
\* one), the first sample of an engine and the first sample after a rebuild
\* included, current_rsi lies in [0, 100] and histogram equals macd_line
\* minus signal_line.
C18_IndicatorsConsistent ==
    lastOp.op = "on_data"
        => \A s \in { strategy[Driven].state } :
               /\ s.current_rsi >= 0
               /\ s.current_rsi <= 100 * RSIScale
               /\ s.histogram = s.macd_line - s.signal_line

\* the first sample of an engine a reload has just rebuilt, taken while the
\* state still shows the old engine's values: an RSI off neutral and a
\* MACD line off zero
C18_Witness ==
    /\ lastOp.op = "on_data"
    /\ lastOp.env # NoEvent
    /\ strategy[Driven].ind.count = 1
    /\ Len(strategy[Driven].close_buf) > 1
    /\ strategy[Driven].state.current_rsi \notin { 0, 50 * RSIScale, 100 * RSIScale }
    /\ strategy[Driven].state.macd_line # 0

\* C19: when the reload of an on_data call changes one of macd_fast,
\* macd_slow, macd_signal, rsi_period, atr_period, the call's sample is the
\* first sample of a new indicator engine built for the new periods; when it
\* changes none of them (or there is no reload), the sample is added to the
\* engine's accumulated state; and whenever the engine's sample count is
\* below the warm-up count of the parameters in effect, the call returns no
\* signal.
C19_PeriodChangeRebuildsEngine ==
    [][ bars' = bars + 1 =>
          \A st \in { strategy[Driven] } : \A st2 \in { strategy'[Driven] } :
          \A d \in { lastOp'.candle } :
              /\ (\E k \in RESET_PARAMS : st2.params[k] # st.params[k])
                    => /\ st2.ind.count = 1
                       /\ st2.ind.fa = st2.params.macd_fast
                       /\ st2.ind.sa = st2.params.macd_slow
                       /\ st2.ind.ga = st2.params.macd_signal
                       /\ st2.ind = IndicatorsUpdate(NewIndicators(st2.params),
                                                     st.state, st2.params, d).ind
                       /\ cycle'[Driven].signals = << >>
              /\ (\A k \in RESET_PARAMS : st2.params[k] = st.params[k])
                    => /\ st2.ind.count = st.ind.count + 1
                       /\ st2.ind = IndicatorsUpdate(st.ind, st.state, st.params, d).ind
              /\ st2.ind.count < WarmupBars(st2.params)
                    => cycle'[Driven].signals = << >> ]_vars

\* past warm-up and with a position in the account, a reload changes a
\* period: the engine starts over and the call returns nothing
C19_Witness ==
    /\ lastOp.op = "on_data"
    /\ lastOp.env # NoEvent
    /\ lastOp.ctx.pos # None
    /\ strategy[Driven].params.macd_signal # InitParams(RunnerOverrides).macd_signal
    /\ strategy[Driven].ind.count = 1
    /\ Len(strategy[Driven].close_buf) > WarmupBars(InitParams(RunnerOverrides))
    /\ cycle[Driven].signals = << >>

\* the reload step 0 attempts finds no file, a file json.load refuses, or a
\* document that is not an object
FailedReload(env) ==
    /\ env # NoEvent
    /\ env.file = None \/ ~env.file.parses \/ ~env.file.is_dict

\* C20: an on_data call whose reload fails (file missing, malformed, or not
\* an object) leaves every parameter, the symbol and the recorded file time
\* as they were, keeps the indicator engine with its periods, and decides
\* exactly as the call would have decided without a reload.
C20_FailedReloadChangesNothing ==
    [][ (bars' = bars + 1 /\ FailedReload(lastOp'.env)) =>
          \A st \in { strategy[Driven] } : \A st2 \in { strategy'[Driven] } :
          \A r \in { on_data(strategy[Driven], lastOp'.candle, lastOp'.ctx) } :
              /\ st2.params = st.params
              /\ st2.symbol = st.symbol
              /\ st2.last_config_mtime = st.last_config_mtime
              /\ st2.ind.fa = st.ind.fa
              /\ st2.ind.sa = st.ind.sa
              /\ st2.ind.ga = st.ind.ga
              /\ st2.ind.count = st.ind.count + 1
              /\ st2 = r.st
              /\ cycle'[Driven].signals = r.signals ]_vars

\* past warm-up, the .reload flag points at a file cut off in the middle
\* that names other parameters and another symbol; the parameters are the
\* ones the strategy started with, and the cycle still trades
C20_Witness ==
    /\ lastOp.op = "on_data"
    /\ FailedReload(lastOp.env)
    /\ lastOp.env.flag
    /\ lastOp.env.file # None
    /\ ~lastOp.env.file.parses
    /\ lastOp.env.file.data.symbol # strategy[Driven].symbol
    /\ strategy[Driven].params = InitParams(RunnerOverrides)
    /\ cycle[Driven].signals # << >>

\* C21: a candle delivered with the timestamp of the most recently buffered
\* candle replaces that candle: the buffers and the indicator sample count
\* do not grow, and the last buffered entry is the new candle.
C21_SameTimestampReplaces ==
    [][ \A st \in { strategy[Driven] } : \A st2 \in { strategy'[Driven] } :
          ( /\ bars' = bars + 1
            /\ st.data_buffer # << >>
            /\ lastOp'.candle.ts = st.data_buffer[Len(st.data_buffer)].ts )
          => /\ Len(st2.data_buffer) = Len(st.data_buffer)
             /\ Len(st2.close_buf) = Len(st.close_buf)
             /\ st2.ind.count = st.ind.count
             /\ st2.data_buffer[Len(st2.data_buffer)] = lastOp'.candle ]_vars

\* C23: with the default parameters and candles that all have the same
\* price, the RSI is 50 after every update and the black-swan check does
\* not trigger at any step, neither in the decision cycle nor when asked
\* about the closes held after it.
C23_CalmMarketNeutral ==
    lastOp.op = "on_data"
        => \A st \in { strategy[Driven] } :
               /\ st.state.current_rsi = 50 * RSIScale
               /\ cycle[Driven].path # "black_swan"
               /\ st.state.black_swan_pause_until = 0
               /\ ~check_black_swan(st.params, st.close_buf, clock, st.state).hit

\* the thirtieth candle at 100.00
C23_Witness ==
    /\ lastOp.op = "on_data"
    /\ lastOp.candle.close = 10000
    /\ strategy[Driven].params = DEFAULT_PARAMS
    /\ strategy[Driven].ind.count = 30
    /\ Len(strategy[Driven].close_buf) = 30
    /\ strategy[Driven].state.current_rsi = 50 * RSIScale

\* C25: a decision cycle that gets as far as the cycle-reset check when
\* cycle_reset_period candles or more have been processed (no reset having
\* fired before) fires the reset: it emits a SELL of the whole open position
\* and leaves the grid bounds cleared.
C25_CycleResetFires ==
    [][ \A st2 \in { strategy'[Driven] } :
          ( /\ bars' = bars + 1
            /\ cycle'[Driven].path = "normal"
            /\ cycle'[Driven].raised = "none"
            /\ Len(st2.close_buf) >= st2.params.cycle_reset_period )
          => /\ st2.state.grid_upper = None
             /\ st2.state.grid_lower = None
             /\ lastOp'.ctx.pos # None
                  => \E i \in 1..Len(cycle'[Driven].signals) :
                         /\ cycle'[Driven].signals[i].reason = "cycle_reset"
                         /\ cycle'[Driven].signals[i].side = "SELL"
                         /\ cycle'[Driven].signals[i].size = lastOp'.ctx.pos.size ]_vars

\* |a - b| <= tol
Near(a, b, tol) == Abs(a - b) <= tol

\* C22: at every step at which the batch recomputation over the candle
\* history yields values, the MACD line, signal line and histogram of the
\* incremental engine equal the batch values, and its RSI and ATR equal them
\* within one RSI point and two price ticks.
C22_IncrementalMatchesBatch ==
    lastOp.op = "on_data"
        => \A st \in { strategy[Driven] } :
           \A closes \in { [i \in 1..Len(st.data_buffer) |-> st.data_buffer[i].close] } :
           \A m \in { calculate_macd(closes, st.params) } :
              /\ Len(closes) >= st.params.macd_slow + st.params.macd_signal
                    => /\ st.state.macd_line = m.macd_line
                       /\ st.state.signal_line = m.signal_line
                       /\ st.state.histogram = m.histogram
              /\ Len(closes) >= st.params.rsi_period + 1
                    => Near(st.state.current_rsi, calculate_rsi(closes, st.params),
                            RSIScale)
              /\ Len(closes) >= st.params.atr_period + 1
                    => Near(st.state.current_atr,
                            calculate_atr(st.data_buffer, st.params), 2)

\* ------------------------------------------------------------------------
\* Properties of the trading session (SpecSession)
\* ------------------------------------------------------------------------
\* some signal of the list is a grid entry
HasGridBuy(sigs) ==
    \E i \in 1..Len(sigs) : sigs[i].side = "BUY" /\ sigs[i].reason = "grid_buy"

\* C11: once an order of a slot was filled at time t, a candle cycle of the
\* runner whose candle is less than cooldown_minutes later than t brings no
\* grid BUY signal from that slot's strategy.
C11_Cooldown ==
    [][ \A s \in SlotIds :
          ( /\ lastOp'.op = "on_bar"
            /\ executor[s].last_fill # None
            /\ clock' - executor[s].last_fill.v
                   < strategy[s].params.cooldown_minutes * 60 )
          => ~HasGridBuy(cycle'[s].signals) ]_vars

C24_QuoteBuyFills ==
    \A s \in SlotIds : \A slip \in Slippages :
    \A sig \in { BuySig(10000, "grid_buy"), BuySig(20000, "grid_buy") } :
    \A ex \in { executor[s] } :
    \A r \in { submit_order(ex, sig, slip) } :
    \A fee \in { (sig.size * FeeRate) \div BP } :
        (ex.current_price > 0 /\ sig.size + fee <= ex.cash)
            => /\ ~r.raised
               /\ r.status = "FILLED"
               /\ r.filled_size = (sig.size * QtyScale) \div r.avg_price
               /\ r.avg_price = (ex.current_price * (BP + slip)) \div BP
               /\ r.ex.cash = ex.cash - (sig.size + fee)
               /\ r.ex.pos # None
               /\ r.ex.pos.size = (IF ex.pos = None THEN 0 ELSE ex.pos.size)
                                      + r.filled_size

\* the death-cross SELLs among the signals of the last cycle
DeathCrossSells(sigs) ==
    { i \in 1..Len(sigs) : sigs[i].reason = "death_cross" }

\* the MACD line was above its signal line at the previous indicator update
\* and is below it, and below zero, at the one of this cycle
DeathCross(before, after) ==
    /\ before.macd_line > before.signal_line
    /\ after.macd_line < after.signal_line
    /\ after.macd_line < 0

\* C28: a decision cycle that reaches the death-cross check emits a
\* death-cross SELL exactly when the MACD line was above its signal line at
\* the previous indicator update, is below it at this one, is below zero,
\* and the context holds a position; the SELL is one signal for the whole
\* position, and a downward cross at or above zero emits none.
C28_DeathCrossExactly ==
    [][ ( /\ lastOp'.op = "on_data"
          /\ cycle'[Driven].path = "normal"
          /\ cycle'[Driven].raised = "none" )
        => \A dc \in { DeathCrossSells(cycle'[Driven].signals) } :
             /\ (dc # {}) <=> ( /\ DeathCross(strategy[Driven].state,
                                              strategy'[Driven].state)
                                /\ lastOp'.ctx.pos # None )
             /\ Cardinality(dc) <= 1
             /\ \A i \in dc :
                   /\ cycle'[Driven].signals[i].side = "SELL"
                   /\ cycle'[Driven].signals[i].size = lastOp'.ctx.pos.size ]_vars

\* a cycle emitted a death-cross SELL of the five units held
C28_Witness ==
    /\ lastOp.op = "on_data"
    /\ cycle[Driven].path = "normal"
    /\ lastOp.ctx.pos # None
    /\ \E i \in DeathCrossSells(cycle[Driven].signals) :
          cycle[Driven].signals[i].size = 5000
    /\ strategy[Driven].state.prev_macd_line > strategy[Driven].state.prev_signal_line
    /\ strategy[Driven].state.macd_line < 0

\* the trend and the RSI signal of the instance disagree: a bullish trend
\* with an RSI signal below -0.5, or a bearish one with a signal above 0.5
TrendRsiConflict(st) ==
    \E sig \in { rsi_signal(st.state, st.params, st.close_buf)[1] } :
        \/ st.state.trend_strength \in {STRONG_BULLISH, BULLISH} /\ sig < 0 - 5000
        \/ st.state.trend_strength \in {STRONG_BEARISH, BEARISH} /\ sig > 5000

\* C29: after every decision cycle that ran the anomaly check the conflict
\* counter is at least 0; it is one more than before the cycle when trend and
\* RSI signal conflict and one less, but never below 0, when they do not; and
\* conservative_mode is true exactly when the counter is 3 or more.
C29_ConflictCounter ==
    [][ ( /\ lastOp'.op = "on_data"
          /\ cycle'[Driven].path \in { "normal", "black_swan" }
          /\ cycle'[Driven].raised = "none" )
        => \A cc \in { strategy[Driven].state.consecutive_conflict },
              st2 \in { strategy'[Driven] } :
             /\ st2.state.consecutive_conflict >= 0
             /\ TrendRsiConflict(st2) => st2.state.consecutive_conflict = cc + 1
             /\ ~TrendRsiConflict(st2)
                   => st2.state.consecutive_conflict = Max2(0, cc - 1)
             /\ st2.state.conservative_mode <=> st2.state.consecutive_conflict >= 3 ]_vars

\* the third conflict in a row has set conservative mode
C29_Witness ==
    /\ lastOp.op = "on_data"
    /\ DOMAIN lastOp = { "op", "candle", "ctx", "before" }
    /\ lastOp.before.consecutive_conflict = 2
    /\ ~lastOp.before.conservative_mode
    /\ TrendRsiConflict(strategy[Driven])
    /\ strategy[Driven].state.consecutive_conflict = 3
    /\ strategy[Driven].state.conservative_mode

\* C30: every BUY signal of a decision cycle has a quote notional of at
\* least min_order_usdt and at most 95% of the cash of the context the cycle
\* was given (so a cycle whose cash allows no such notional emits no BUY).
C30_BuyNotionalBounded ==
    lastOp.op = "on_data"
      => \A i \in 1..Len(cycle[Driven].signals) :
            cycle[Driven].signals[i].side = "BUY"
              => /\ cycle[Driven].signals[i].size_in_quote
                 /\ cycle[Driven].signals[i].size
                       >= strategy[Driven].params.min_order_usdt
                 /\ cycle[Driven].signals[i].size * 100 <= lastOp.ctx.cash * 95

\* the state _grid_orders works on in a cycle: the state the cycle leaves,
\* with the last-seen candle the cycle started with
GridState(before, after) ==
    [after.state EXCEPT !.last_candle = before.state.last_candle]

\* the price is at least the minimum re-entry interval below the average
\* entry price of the position held
ReentryAllowed(s, p, ctx, cp) ==
    cp * BP <= ctx.pos.avg_price * (BP - GridInterval(s, p, cp))

\* C31: a decision cycle emits a grid BUY only if a grid level was crossed
\* downward between the last-seen candle and this one, the matrix action is
\* heavy_buy, buy or light_buy, the estimated position layers are below
\* max_positions, RSI is below rsi_extreme_buy, and either no position is
\* held or the price is at least the re-entry interval below its average
\* entry price.
C31_GridBuyGuards ==
    [][ ( /\ lastOp'.op = "on_data"
          /\ HasGridBuy(cycle'[Driven].signals) )
        => \A s \in { GridState(strategy[Driven], strategy'[Driven]) } :
           \A p \in { strategy'[Driven].params } :
           \A d \in { lastOp'.candle } :
           \A ctx \in { lastOp'.ctx } :
             /\ s.last_candle # None
             /\ CrossDown(s, d)
             /\ IsBuyAction(s.last_action)
             /\ pos_layers(s, p, ctx, d.close) < p.max_positions
             /\ s.current_rsi < p.rsi_extreme_buy
             /\ ctx.pos = None \/ ReentryAllowed(s, p, ctx, d.close) ]_vars

\* a cycle added to the position it was given: a grid BUY at a price below
\* the average entry price by the re-entry interval or more
C31_Witness ==
    /\ lastOp.op = "on_data"
    /\ HasGridBuy(cycle[Driven].signals)
    /\ lastOp.ctx.pos # None
    /\ lastOp.candle.close < lastOp.ctx.pos.avg_price
    /\ IsBuyAction(strategy[Driven].state.last_action)
    /\ DOMAIN lastOp = { "op", "candle", "ctx", "before" }
    /\ CrossDown(GridState([state |-> lastOp.before], strategy[Driven]), lastOp.candle)

\* the cycle of the driven instance got as far as the matrix
MatrixEvaluated ==
    /\ lastOp.op = "on_data"
    /\ cycle[Driven].path = "normal"
    /\ cycle[Driven].raised = "none"

\* trend and momentum disagree in the extreme: a strong bullish trend with
\* RSI in the overbought zone, or a strong bearish one with RSI in the
\* oversold zone
ExtremeDisagreement(st) ==
    \/ /\ st.state.trend_strength = STRONG_BULLISH
       /\ st.state.current_rsi >= st.params.rsi_zone_overbought
    \/ /\ st.state.trend_strength = STRONG_BEARISH
       /\ st.state.current_rsi < st.params.rsi_zone_oversold

\* no full-size entry under a bearish trend
NoFullEntryAgainstTrend(st) ==
    st.state.trend_strength \in { BEARISH, STRONG_BEARISH }
      => st.state.last_action \notin { "buy", "heavy_buy" }

\* C32 (as stated): the action of the matrix is stop whenever trend and
\* momentum disagree in the extreme, and is never buy or heavy_buy under
\* BEARISH or STRONG_BEARISH.
C32_ExtremeDisagreementStops ==
    MatrixEvaluated
      => /\ ExtremeDisagreement(strategy[Driven])
              => strategy[Driven].state.last_action = "stop"
         /\ NoFullEntryAgainstTrend(strategy[Driven])

\* C32 (amended): the action of the matrix is hold whenever trend and
\* momentum disagree in the extreme; it is stop exactly under BEARISH or
\* STRONG_BEARISH with RSI from the oversold threshold up to (not including)
\* the overbought threshold; and it is never buy or heavy_buy under BEARISH
\* or STRONG_BEARISH.
C32_ExtremeDisagreementHolds ==
    MatrixEvaluated
      => /\ ExtremeDisagreement(strategy[Driven])
              => strategy[Driven].state.last_action = "hold"
         /\ strategy[Driven].state.last_action = "stop"
              <=> /\ strategy[Driven].state.trend_strength \in { BEARISH, STRONG_BEARISH }
                  /\ strategy[Driven].state.current_rsi
                        >= strategy[Driven].params.rsi_zone_oversold
                  /\ strategy[Driven].state.current_rsi
                        < strategy[Driven].params.rsi_zone_overbought
         /\ NoFullEntryAgainstTrend(strategy[Driven])

\* a strong bullish trend met an overbought RSI and the matrix answered hold
C32_Witness ==
    /\ MatrixEvaluated
    /\ strategy[Driven].state.trend_strength = STRONG_BULLISH
    /\ strategy[Driven].state.current_rsi >= strategy[Driven].params.rsi_zone_overbought
    /\ strategy[Driven].state.last_action = "hold"

\* C33: every parameter the instance was constructed with as an override
\* has the override's value at all times, also after the parameter file was
\* reloaded with another value for it.
C33_OverridesOutlastReload ==
    \A k \in DOMAIN RunnerOverrides :
        strategy[Driven].params[k] = RunnerOverrides[k]

\* the sizes of the SELL signals of a list, added up
SellTotal(sigs) ==
    SeqSum([ i \in 1..Len(sigs) |->
               IF sigs[i].side = "SELL" THEN sigs[i].size ELSE 0 ])

\* C34: the SELL signals a decision cycle returns add up to at most the
\* position size the context of the cycle gave (nothing when it gave no
\* position).
C34_SellsWithinPosition ==
    lastOp.op = "on_data"
      => SellTotal(cycle[Driven].signals)
           <= (IF lastOp.ctx.pos = None THEN 0 ELSE lastOp.ctx.pos.size)

\* some signal of the list liquidates the whole position: stop loss, trailing
\* stop, death cross or cycle reset
HasLiquidation(sigs) ==
    \E i \in 1..Len(sigs) :
        /\ sigs[i].side = "SELL"
        /\ sigs[i].reason \in { "stop_loss", "trailing", "death_cross", "cycle_reset" }

\* C35: a decision cycle that returns a full-liquidation SELL (stop loss,
\* trailing stop, death cross or cycle reset) returns no BUY signal.
C35_NoEntryWithLiquidation ==
    ( lastOp.op = "on_data" /\ HasLiquidation(cycle[Driven].signals) )
      => \A i \in 1..Len(cycle[Driven].signals) :
             cycle[Driven].signals[i].side # "BUY"

\* the orders of a cycle the executor filled (it booked them in the account)
FilledOrders(c) ==
    { i \in 1..Len(c.outcomes) : c.outcomes[i] \in FilledOutcomes }

\* C36: a candle cycle of the runner appends one record to a slot's trade
\* log for every order the slot's executor filled in it and none for any
\* other order, and the executor's cash and position change only in a cycle
\* that appends a record.
C36_FillsAreRecorded ==
    [][ \A s \in SlotIds :
          lastOp'.op = "on_bar"
            => /\ Len(trades'[s]) - Len(trades[s])
                    = Cardinality(FilledOrders(cycle'[s]))
               /\ ( executor'[s].cash # executor[s].cash
                      \/ executor'[s].pos # executor[s].pos )
                    => Len(trades'[s]) > Len(trades[s]) ]_vars

\* C37: after every candle the runner delivers, the last-seen candle of
\* every slot's strategy is that candle, whether the slot is running, paused
\* or stopped and whichever way on_data returned.
C37_LastCandleIsLastDelivered ==
    [][ \A s \in SlotIds :
          ( lastOp'.op = "on_bar" /\ cycle'[s].raised = "none" )
            => strategy'[s].state.last_candle = LastCandleOf(lastOp'.candle) ]_vars

\* C38: whatever orders were submitted to an executor, its cash is not
\* negative and a position it holds has a size above zero.
C38_AccountSound ==
    \A s \in SlotIds :
        /\ executor[s].cash >= 0
        /\ executor[s].pos # None => executor[s].pos.size > 0

\* some signal of the list is a grid exit
HasGridSell(sigs) ==
    \E i \in 1..Len(sigs) : sigs[i].side = "SELL" /\ sigs[i].reason = "grid_sell"

\* C39: no call of the grid logic and no decision cycle returns a grid BUY
\* together with a grid SELL.
C39_GridBuyXorSell ==
    lastOp.op \in { "grid_orders", "on_data" }
      => ~( HasGridBuy(cycle[Driven].signals) /\ HasGridSell(cycle[Driven].signals) )

\* a candle crossed one level downward and another upward with a position
\* held below its entry price and a buy action, and the grid logic returned
\* the BUY alone
C39_Witness ==
    /\ lastOp.op = "grid_orders"
    /\ CrossDown(lastOp.s, lastOp.candle)
    /\ CrossUp(lastOp.s, lastOp.candle)
    /\ lastOp.ctx.pos # None
    /\ IsBuyAction(lastOp.action)
    /\ HasGridBuy(cycle[Driven].signals)
    /\ Len(cycle[Driven].signals) = 1

\* the four buffers of a strategy have one length and hold, index by index,
\* the close, high and low of the candle object at that index
BuffersAligned(st) ==
    /\ Len(st.close_buf) = Len(st.data_buffer)
    /\ Len(st.high_buf) = Len(st.data_buffer)
    /\ Len(st.low_buf) = Len(st.data_buffer)
    /\ \A i \in 1..Len(st.data_buffer) :
          /\ st.close_buf[i] = st.data_buffer[i].close
          /\ st.high_buf[i] = st.data_buffer[i].high
          /\ st.low_buf[i] = st.data_buffer[i].low

\* every pivot of the list carries the timestamp of the buffered candle whose
\* high (hi) or low has the pivot's price
PivotsTimed(st, pivots, hi) ==
    \A k \in 1..Len(pivots) :
        /\ pivots[k].time # None
        /\ \E i \in 1..Len(st.data_buffer) :
              /\ st.data_buffer[i].ts = pivots[k].time.v
              /\ pivots[k].price = IF hi THEN st.data_buffer[i].high
                                   ELSE st.data_buffer[i].low

\* C40: at all times the close, high, low and candle-object buffers of every
\* strategy have the same length and are index-aligned, and every pivot in
\* the strategy's state carries the timestamp of the candle at which its
\* price occurred.
C40_BuffersAligned ==
    \A s \in SlotIds :
        /\ BuffersAligned(strategy[s])
        /\ strategy[s].state.pivots # None
              => /\ PivotsTimed(strategy[s], strategy[s].state.pivots.pivots_high, TRUE)
                 /\ PivotsTimed(strategy[s], strategy[s].state.pivots.pivots_low, FALSE)

\* the defaults of the risk state: no peak-price entry, conflict counter 0,
\* conservative mode off, no black-swan pause deadline, no last trade
RiskDefaults(st) ==
    /\ st.peaks = None
    /\ st.state.consecutive_conflict = 0
    /\ st.state.conservative_mode = FALSE
    /\ st.state.black_swan_pause_until = 0
    /\ st.state.last_trade_ts = 0

C26_PeakRemovedOnClose ==
    [][ \A s \in SlotIds :
          lastOp'.op = "on_bar"
            => /\ executor'[s].pos = None => strategy'[s].peaks = None
               /\ (executor'[s].pos # None /\ executor[s].pos # None
                      /\ strategy[s].peaks # None)
                    => strategy'[s].peaks # None ]_vars

\* C14: a candle cycle writes the documents of a slot only when at least
\* one order of that slot was filled in the cycle; a cycle without signals,
\* or whose orders were all rejected, writes nothing.
C14_SaveOnlyAfterFill ==
    [][ \A s \in SlotIds :
          (lastOp'.op = "on_bar" /\ cycle'[s].saved)
            => \E i \in 1..Len(cycle'[s].outcomes) :
                   cycle'[s].outcomes[i] \in FilledOutcomes ]_vars

\* the positions of an account as (symbol, size, average price)
PositionsOf(ex) ==
    IF ex.pos = None THEN { }
    ELSE { << Symbol, ex.pos.size, ex.pos.avg_price >> }

C13_ResetSafeAgainstCycle ==
    (lastOp.op = "slot_done" /\ lastOp.reset_seen)
        => /\ executor[lastOp.slot].cash = slots[lastOp.slot].initial_balance
           /\ executor[lastOp.slot].pos = None
           /\ trades[lastOp.slot] = << >>
           /\ files[lastOp.slot] = NoFiles
           /\ executor[lastOp.slot].n_orders = 0

====
